---- MODULE Spec2Model ----
(***************************************************************************)
(* Holon: a graph of processing steps kept inside Python source text.      *)
(* This module models the execution engine (holon/execution), the          *)
(* extractor (holon/services/graph_parser.py) and the patcher              *)
(* (holon/services/patcher.py).                                            *)
(***************************************************************************)
EXTENDS Integers, Sequences, FiniteSets, TLC

(***************************************************************************)
(* Bounds of the model.                                                    *)
(***************************************************************************)
MaxSpecs == 2
MaxLinks == 2
MaxRuns == 2
MaxPatches == 1

(***************************************************************************)
(* Generic helpers.                                                        *)
(***************************************************************************)
Range(s) == {s[i] : i \in 1..Len(s)}

RECURSIVE SeqsUpTo(_, _)
SeqsUpTo(S, n) ==
    IF n = 0 THEN {<<>>}
    ELSE LET shorter == SeqsUpTo(S, n - 1)
         IN  shorter \cup {Append(s, x) : s \in {t \in shorter : Len(t) = n - 1}, x \in S}

RECURSIVE Perms(_)
Perms(S) ==
    IF S = {} THEN {<<>>}
    ELSE UNION {{<<x>> \o p : p \in Perms(S \ {x})} : x \in S}

(***************************************************************************)
(* Python values.  Every value is a record of one shape: t is the Python   *)
(* type, s the scalar payload (printed), keys/items the members of a list  *)
(* or dict, or the attributes an object exposes.  Optional strings use     *)
(* None for Python's None.                                                 *)
(***************************************************************************)
None == "<None>"

J(t, s, keys, items) == [t |-> t, s |-> s, keys |-> keys, items |-> items]
JNone == J("NoneType", "None", <<>>, <<>>)
JBool(s) == J("bool", s, <<>>, <<>>)
JInt(s) == J("int", s, <<>>, <<>>)
JFloat(s) == J("float", s, <<>>, <<>>)
JStr(s) == J("str", s, <<>>, <<>>)
JList(items) == J("list", "", <<>>, items)
JDict(keys, items) == J("dict", "", keys, items)
EmptyDict == JDict(<<>>, <<>>)

\* dict.get(key, default)
DictGet(d, key, default) ==
    IF \E i \in 1..Len(d.keys) : d.keys[i] = key
    THEN d.items[CHOOSE i \in 1..Len(d.keys) : d.keys[i] = key]
    ELSE default

\* d[key] = value on a Python dict (insertion order kept, later write wins)
DictSet(d, key, value) ==
    IF \E i \in 1..Len(d.keys) : d.keys[i] = key
    THEN [d EXCEPT !.items[CHOOSE i \in 1..Len(d.keys) : d.keys[i] = key] = value]
    ELSE [d EXCEPT !.keys = Append(@, key), !.items = Append(@, value)]

(***************************************************************************)
(* domain/models.py                                                        *)
(***************************************************************************)
Node(id, name, kind, label, node_type, props) ==
    [id |-> id, name |-> name, kind |-> kind, label |-> label,
     node_type |-> node_type, props |-> props]

Edge(source, target, source_port, target_port, kind) ==
    [source |-> source, target |-> target, source_port |-> source_port,
     target_port |-> target_port, kind |-> kind]

Graph(nodes, edges) == [nodes |-> nodes, edges |-> edges]

(***************************************************************************)
(* State.                                                                  *)
(***************************************************************************)
VARIABLES
    graph,            \* ctx.graph
    registry,         \* registry._global_registry._resolvers: type id -> resolver
    connections,      \* ctx.port_registry.connections
    values,           \* ctx.port_registry.values: <<node_id, port_id>> -> value
    cache,            \* ctx.resolver._cache: node id -> ResolvedNode
    node_outputs,     \* ctx.node_outputs
    execution_trace,  \* ctx.execution_trace
    error_node_id,    \* ctx.error_node_id
    phase,            \* position of execute_graph
    resolve_pos,      \* index of the node _resolve_spec_nodes looks at next
    execution_order,  \* the list _build_execution_order returned
    exec_pos,         \* index of the node _execute_nodes works on
    executing,        \* TRUE between gathering a node's inputs and its outcome
    inputs,           \* the inputs gathered for the node being executed
    result,           \* the local result of _execute_nodes / the returned value
    raised,           \* the exception execute_graph raised to its caller, or None
    runs,             \* number of execute_graph calls made on this context
    trace_base        \* length of ctx.execution_trace when the current call began

engine_vars == <<graph, registry, connections, values, cache, node_outputs,
                 execution_trace, error_node_id, phase, resolve_pos,
                 execution_order, exec_pos, executing, inputs, result, raised,
                 runs, trace_base>>

VARIABLES
    module_text,      \* the source text the caller holds: a parsed module
    original,         \* the text handed to the latest Patcher call
    operation,        \* the latest Patcher call and its arguments
    outcome,          \* the exception the latest Patcher call raised, or None
    patches,          \* number of Patcher calls made
    previous,         \* the parse_graph call before the latest: its text and Graph
    latest            \* the latest parse_graph call: its text and Graph

text_vars == <<module_text, original, operation, outcome, patches, previous, latest>>

\* WorkflowRunner (runner.py) and the interpreter state it touches
VARIABLES
    resolve_specs,      \* WorkflowRunner.resolve_specs
    spec_cache,         \* WorkflowRunner._spec_cache: spec id -> resolved object
    sys_modules,        \* the module names the runner left in sys.modules
    invocation,         \* the call in progress or last made, with its arguments
    runner_pc,          \* "idle", "load", "find", "run", "returned" or "raised"
    loaded,             \* the attributes of the module _load_module returned
    executed,           \* the code of the source that ran during the call, in order
    thrown,             \* the exception the code of the source raised, None if none
    execution_result,   \* the ExecutionResult the call returned
    propagated,         \* the exception that left the call, None if it returned
    invocations         \* calls made so far

runner_vars == <<resolve_specs, spec_cache, sys_modules, invocation, runner_pc, loaded,
                 executed, thrown, execution_result, propagated, invocations>>

\* a SpecTypeRegistry (registry.py 49-128) and the calls made on it
VARIABLES
    resolvers,          \* SpecTypeRegistry._resolvers: type id -> resolver
    registrations,      \* the register calls made so far, in order: <<type id, resolver>>
    registry_call       \* the last call: its arguments, the registry before it, its outcome

registry_vars == <<resolvers, registrations, registry_call>>

\* the stdio RPC server (rpc/server.py)
VARIABLES
    stdin,              \* the lines not read yet
    stdout,             \* the lines written so far
    server_pc,          \* "reading", "returned" (main returned) or "crashed"
    requests,           \* the requests parsed from the lines read so far, in order
    crash               \* the exception that ended main, None if none

rpc_vars == <<stdin, stdout, server_pc, requests, crash>>

\* a MemoryBuffer (registry.py 226-242), the lists it handed out, and its caller
VARIABLES
    max_messages,       \* MemoryBuffer.max_messages
    heap,               \* the list objects: the first is MemoryBuffer.messages, the
                        \* others are the lists get_messages returned, in order
    got,                \* the index in heap of the list the caller holds, 0 if none
    added,              \* the messages passed to add since the last clear, in order
    buffer_call,        \* the last call made: "add", "get_messages", "clear", "append"
    buffer_calls        \* calls made so far

buffer_vars == <<max_messages, heap, got, added, buffer_call, buffer_calls>>

service_vars == <<runner_vars, registry_vars, rpc_vars, buffer_vars>>

vars == <<engine_vars, text_vars, service_vars>>

\* ExecutionResult (runner.py 35-49)
ExecutionResult(output, error) == [output |-> output, error |-> error]
success(r) == r.error = None
NoResult == [output |-> "<no result>", error |-> "<no result>"]

NoInvocation == [op |-> None]

\* a runner that was constructed and not called
RunnerConstructed ==
    /\ spec_cache = EmptyDict
    /\ sys_modules = {}
    /\ invocation = NoInvocation
    /\ runner_pc = "idle"
    /\ loaded = <<>>
    /\ executed = <<>>
    /\ thrown = None
    /\ execution_result = NoResult
    /\ propagated = None
    /\ invocations = 0

NoRegistryCall == [op |-> None]

RegistryConstructed ==
    /\ resolvers = <<>>
    /\ registrations = <<>>
    /\ registry_call = NoRegistryCall

ServerNotStarted ==
    /\ stdin = <<>>
    /\ stdout = <<>>
    /\ server_pc = "reading"
    /\ requests = <<>>
    /\ crash = None

\* no MemoryBuffer in use
BufferNotCreated ==
    /\ max_messages = 0
    /\ heap = <<<<>>>>
    /\ got = 0
    /\ added = <<>>
    /\ buffer_call = None
    /\ buffer_calls = 0

ServicesIdle ==
    /\ resolve_specs = TRUE
    /\ RunnerConstructed
    /\ RegistryConstructed
    /\ ServerNotStarted
    /\ BufferNotCreated

(***************************************************************************)
(* holon/registry.py and holon/library/langchain_registry.py               *)
(***************************************************************************)
Outcome(raises, value, error) == [raises |-> raises, value |-> value, error |-> error]

\* What calling a registered resolver with props can do.
ResolverResults(resolver, props) ==
    CASE resolver = "_resolve_memory_buffer" ->
            {Outcome(FALSE, J("MemoryBuffer", "", props.keys, props.items), None)}
      [] resolver = "resolve_langchain_agent" ->
            {Outcome(FALSE, J("function", "agent_runner", <<>>, <<>>), None)}
      [] resolver = "resolve_langchain_tool" ->
            IF DictGet(props, "name", JNone) = JNone
            THEN {Outcome(TRUE, JNone, "ValueError: Tool requires 'name' and 'description' properties"),
                  Outcome(TRUE, JNone, "ImportError: LangChain not available")}
            ELSE {Outcome(TRUE, JNone, "ImportError: LangChain not available"),
                  Outcome(FALSE, J("Tool", "", props.keys, props.items), None)}
      [] resolver = "user_agent_resolver" ->
            {Outcome(FALSE, J("coroutine_function", "user_agent", <<>>, <<>>), None)}
      [] OTHER -> {Outcome(TRUE, JNone, "TypeError: resolver is not callable")}

has_resolver(reg, type_id) == type_id \in DOMAIN reg

\* SpecTypeRegistry.resolve
registry_resolve(reg, type_id, props) ==
    IF type_id \notin DOMAIN reg
    THEN {Outcome(TRUE, JNone, "ValueError: No resolver registered for spec type")}
    ELSE ResolverResults(reg[type_id], props)

(***************************************************************************)
(* holon/execution/resolver.py                                             *)
(***************************************************************************)
ResolvedNode(node_id, node_type, props, runtime_object) ==
    [node_id |-> node_id, node_type |-> node_type, props |-> props,
     runtime_object |-> runtime_object]

NotResolved == ResolvedNode(None, None, EmptyDict, JNone)

\* SpecResolver.resolve: the outcomes, each with the ResolvedNode returned
SpecResolver_resolve(c, reg, node_id, node_type, props) ==
    IF node_id \in DOMAIN c
    THEN {[raises |-> FALSE, error |-> None, resolved |-> c[node_id]]}
    ELSE IF ~has_resolver(reg, node_type)
    THEN {[raises |-> FALSE, error |-> None,
           resolved |-> ResolvedNode(node_id, node_type, props,
                                     J("SimpleNamespace", "", props.keys, props.items))]}
    ELSE {[raises |-> o.raises, error |-> o.error,
           resolved |-> ResolvedNode(node_id, node_type, props, o.value)]
          : o \in registry_resolve(reg, node_type, props)}

get_cached(c, node_id) == IF node_id \in DOMAIN c THEN c[node_id] ELSE NotResolved

(***************************************************************************)
(* holon/execution/ports.py                                                *)
(***************************************************************************)
PortConnection(source_node, source_port, target_node, target_port) ==
    [source_node |-> source_node, source_port |-> source_port,
     target_node |-> target_node, target_port |-> target_port]

set_value(vals, node_id, port_id, value) == (<<node_id, port_id>> :> value) @@ vals

get_value(vals, node_id, port_id) ==
    IF <<node_id, port_id>> \in DOMAIN vals THEN vals[<<node_id, port_id>>] ELSE JNone

RECURSIVE get_inputs_from(_, _, _, _, _)
get_inputs_from(conns, vals, node_id, i, acc) ==
    IF i > Len(conns) THEN acc
    ELSE LET conn == conns[i]
             source_value == get_value(vals, conn.source_node, conn.source_port)
         IN  IF conn.target_node = node_id /\ source_value # JNone
             THEN get_inputs_from(conns, vals, node_id, i + 1,
                                  DictSet(acc, conn.target_port, source_value))
             ELSE get_inputs_from(conns, vals, node_id, i + 1, acc)

get_inputs_for_node(conns, vals, node_id) ==
    get_inputs_from(conns, vals, node_id, 1, EmptyDict)

\* get_dependencies answering with the dependents instead
get_dependencies_swapped(conns, node_id) ==
    {conns[i].target_node : i \in {j \in 1..Len(conns) : conns[j].source_node = node_id}}

get_dependencies(conns, node_id) ==
    {conns[i].source_node : i \in {j \in 1..Len(conns) : conns[j].target_node = node_id}}

(***************************************************************************)
(* holon/execution/engine.py                                               *)
(***************************************************************************)
Truthy(str) == str # None /\ str # ""

\* The ids of the model that start with "workflow:" (str.startswith)
WorkflowPrefixed == {"workflow:main", "workflow:agent"}
startswith_workflow(id) == id \in WorkflowPrefixed

TraceEntry(node_id, status, error) == [node_id |-> node_id, status |-> status, error |-> error]

RECURSIVE link_connections(_, _)
link_connections(edges, i) ==
    IF i > Len(edges) THEN <<>>
    ELSE IF Truthy(edges[i].source_port) /\ Truthy(edges[i].target_port)
    THEN <<PortConnection(edges[i].source, edges[i].source_port,
                          edges[i].target, edges[i].target_port)>>
         \o link_connections(edges, i + 1)
    ELSE link_connections(edges, i + 1)

is_agent(node) == node.kind = "spec" /\ node.node_type = "langchain.agent"

needs_resolution(node) == node.kind = "spec" /\ Truthy(node.node_type)

\* the next index >= i of a node that _resolve_spec_nodes resolves
RECURSIVE next_spec_pos(_, _)
next_spec_pos(nodes, i) ==
    IF i > Len(nodes) THEN i
    ELSE IF needs_resolution(nodes[i]) THEN i
    ELSE next_spec_pos(nodes, i + 1)

\* the set built from the list `executable`
executable(g) ==
    {g.nodes[i].id : i \in {j \in 1..Len(g.nodes) :
        /\ ~startswith_workflow(g.nodes[j].id)
        /\ (g.nodes[j].kind = "node" \/ is_agent(g.nodes[j]))}}

ready_set(conns, remaining) ==
    {n \in remaining : get_dependencies(conns, n) \cap remaining = {}}

\* Every list the while loop can produce: a set is iterated in an order the
\* hash seed of the process decides.
RECURSIVE build_orders(_, _, _)
build_orders(conns, remaining, ordered) ==
    IF remaining = {} THEN {ordered}
    ELSE LET ready == ready_set(conns, remaining)
         IN  IF ready # {}
             THEN UNION {build_orders(conns, remaining \ ready, ordered \o p) : p \in Perms(ready)}
             ELSE UNION {build_orders(conns, remaining \ {n}, Append(ordered, n)) : n \in remaining}

build_execution_order_results(g, conns) == build_orders(conns, executable(g), <<>>)

NoNode == Node(None, None, None, None, None, JNone)

find_node(g, node_id) ==
    IF \E i \in 1..Len(g.nodes) : g.nodes[i].id = node_id
    THEN g.nodes[CHOOSE i \in 1..Len(g.nodes) :
            /\ g.nodes[i].id = node_id
            /\ \A j \in 1..(i - 1) : g.nodes[j].id # node_id]
    ELSE NoNode

props_or_empty(props) == IF props = JNone THEN EmptyDict ELSE props

Placeholder(text, node_id) == J("str", text, <<node_id>>, <<>>)

AgentReturns == {JStr("answer"), JNone}

callable(obj) == obj.t \in {"function", "coroutine_function"}

\* await agent_runner(**agent_kwargs)
agent_call_results(agent_runner, agent_kwargs) ==
    IF agent_runner.t = "coroutine_function"
    THEN {Outcome(FALSE, v, None) : v \in AgentReturns}
         \cup {Outcome(TRUE, JNone, "RuntimeError: agent failed")}
    ELSE IF DictGet(agent_kwargs, "llm", JNone) = JNone
    THEN {Outcome(TRUE, JNone, "ValueError: LLM is required")}
    ELSE {Outcome(TRUE, JNone, "TypeError: object str can't be used in 'await' expression"),
          Outcome(TRUE, JNone, "RuntimeError: Unable to construct/run LangChain agent")}

RECURSIVE copy_ports(_, _, _)
copy_ports(ins, ports, acc) ==
    IF ports = <<>> THEN acc
    ELSE copy_ports(ins, Tail(ports),
            IF \E i \in 1..Len(ins.keys) : ins.keys[i] = Head(ports)
            THEN DictSet(acc, Head(ports), DictGet(ins, Head(ports), JNone))
            ELSE acc)

build_agent_kwargs(resolved, ins) ==
    copy_ports(ins, <<"llm", "tools", "memory">>,
        DictSet(EmptyDict, "input",
            IF \E i \in 1..Len(ins.keys) : ins.keys[i] = "input"
            THEN DictGet(ins, "input", JNone)
            ELSE DictGet(resolved.props, "user_prompt", JStr(""))))

execute_agent_node(c, node, ins) ==
    LET resolved == get_cached(c, node.id)
    IN  IF resolved = NotResolved
        THEN {Outcome(TRUE, JNone, "RuntimeError: Agent node not resolved")}
        ELSE IF callable(resolved.runtime_object)
        THEN agent_call_results(resolved.runtime_object, build_agent_kwargs(resolved, ins))
        ELSE {Outcome(FALSE, Placeholder("<agent output>", node.id), None)}

execute_node(c, node, ins) ==
    IF is_agent(node) THEN execute_agent_node(c, node, ins)
    ELSE {Outcome(FALSE, Placeholder("<executed>", node.id), None)}

\* the body of the try block of _execute_nodes
node_results(c, vals, node, ins) ==
    IF is_agent(node) THEN execute_agent_node(c, node, ins)
    ELSE IF node.kind = "spec" THEN {Outcome(FALSE, get_value(vals, node.id, "output"), None)}
    ELSE execute_node(c, node, ins)

(***************************************************************************)
(* The graphs and registries the engine is run on.                         *)
(***************************************************************************)
FunctionNodes ==
    <<Node("node:add", "add", "node", None, None, JNone),
      Node("node:multiply", "multiply", "node", None, None, JNone),
      Node("workflow:main", "main", "workflow", None, None, JNone)>>

CodeEdges ==
    <<Edge("workflow:main", "node:add", None, None, "code"),
      Edge("workflow:main", "node:multiply", None, None, "code")>>

SpecChoices ==
    {Node("spec:agent", "spec:agent", "spec", None, "langchain.agent",
          JDict(<<"user_prompt">>, <<JStr("hi")>>)),
     Node("spec:s", "spec:s", "spec", None, "memory.buffer",
          JDict(<<"max_messages">>, <<JInt("7")>>)),
     Node("spec:s", "Unknown", "spec", "Unknown", "custom.type",
          JDict(<<"a">>, <<JStr("v")>>)),
     Node("spec:t", "spec:t", "spec", None, "langchain.tool", JNone),
     Node("workflow:agent", "workflow:agent", "spec", None, "langchain.agent", JNone)}

LinkChoices ==
    {Edge("node:add", "node:multiply", "output", "x", "link"),
     Edge("node:add", "node:multiply", "result", "x", "link"),
     Edge("node:multiply", "node:add", "output", "x", "link"),
     Edge("node:add", "node:add", "output", "y", "link"),
     Edge("node:add", "spec:agent", "output", "input", "link"),
     Edge("spec:agent", "node:multiply", "output", "x", "link"),
     Edge("spec:s", "spec:agent", "output", "llm", "link"),
     Edge("node:multiply", "node:add", "", "x", "link")}

Graphs ==
    {Graph(FunctionNodes \o specs, CodeEdges \o links) :
        specs \in SeqsUpTo(SpecChoices, MaxSpecs),
        links \in SeqsUpTo(LinkChoices, MaxLinks)}

BuiltinRegistry == ("memory.buffer" :> "_resolve_memory_buffer")

Registries ==
    {BuiltinRegistry,
     BuiltinRegistry @@ ("langchain.agent" :> "resolve_langchain_agent")
                     @@ ("langchain.tool" :> "resolve_langchain_tool"),
     BuiltinRegistry @@ ("langchain.agent" :> "user_agent_resolver")}

(***************************************************************************)
(* ExecutionEngine.execute_graph, step by step.                            *)
(***************************************************************************)
InitEngine ==
    /\ graph \in Graphs
    /\ registry \in Registries
    /\ connections = <<>>
    /\ values = <<>>
    /\ cache = <<>>
    /\ node_outputs = <<>>
    /\ execution_trace = <<>>
    /\ error_node_id = None
    /\ phase = "Idle"
    /\ resolve_pos = 0
    /\ execution_order = <<>>
    /\ exec_pos = 0
    /\ executing = FALSE
    /\ inputs = EmptyDict
    /\ result = JNone
    /\ raised = None
    /\ runs = 1
    /\ trace_base = 0
    /\ module_text = <<>>
    /\ original = <<>>
    /\ operation = [op |-> None]
    /\ outcome = None
    /\ patches = 0
    /\ previous = [made |-> FALSE]
    /\ latest = [made |-> FALSE]
    /\ ServicesIdle

\* Step 1: _register_port_connections
register_port_connections ==
    /\ phase = "Idle"
    /\ UNCHANGED <<text_vars, service_vars>>
    /\ connections' = connections \o link_connections(graph.edges, 1)
    /\ resolve_pos' = next_spec_pos(graph.nodes, 1)
    /\ phase' = "ConnectionsRegistered"
    /\ UNCHANGED <<graph, registry, values, cache, node_outputs, execution_trace,
                   error_node_id, execution_order, exec_pos, executing, inputs,
                   result, raised, runs, trace_base>>

\* Step 2: one iteration of the loop of _resolve_spec_nodes on a spec node
resolve_spec_node ==
    /\ phase = "ConnectionsRegistered"
    /\ UNCHANGED <<text_vars, service_vars>>
    /\ resolve_pos <= Len(graph.nodes)
    /\ LET node == graph.nodes[resolve_pos]
       IN  \E o \in SpecResolver_resolve(cache, registry, node.id, node.node_type,
                                         props_or_empty(node.props)) :
             IF o.raises
             THEN /\ phase' = "Failed"
                  /\ raised' = o.error
                  /\ UNCHANGED <<cache, values, resolve_pos>>
             ELSE /\ cache' = (node.id :> o.resolved) @@ cache
                  /\ values' = set_value(values, node.id, "output", o.resolved.runtime_object)
                  /\ resolve_pos' = next_spec_pos(graph.nodes, resolve_pos + 1)
                  /\ UNCHANGED <<phase, raised>>
    /\ UNCHANGED <<graph, registry, connections, node_outputs, execution_trace,
                   error_node_id, execution_order, exec_pos, executing, inputs,
                   result, runs, trace_base>>

\* Step 3: _build_execution_order, and the entry of _execute_nodes
build_execution_order ==
    /\ phase = "ConnectionsRegistered"
    /\ UNCHANGED <<text_vars, service_vars>>
    /\ resolve_pos > Len(graph.nodes)
    /\ \E order \in build_execution_order_results(graph, connections) :
          /\ execution_order' = order
          /\ phase' = IF order = <<>> THEN "Completed" ELSE "Running"
    /\ exec_pos' = 1
    /\ result' = JNone
    /\ UNCHANGED <<graph, registry, connections, values, cache, node_outputs,
                   execution_trace, error_node_id, resolve_pos, executing, inputs,
                   raised, runs, trace_base>>

after_node(pos) == IF pos >= Len(execution_order) THEN "Completed" ELSE "Running"

\* Step 4, first half of an iteration: look the node up and gather its inputs
begin_node ==
    /\ phase = "Running"
    /\ UNCHANGED <<text_vars, service_vars>>
    /\ ~executing
    /\ LET node_id == execution_order[exec_pos]
       IN  IF find_node(graph, node_id) = NoNode
           THEN /\ execution_trace' = Append(execution_trace,
                        TraceEntry(node_id, "error", "Node not found in graph"))
                /\ exec_pos' = exec_pos + 1
                /\ phase' = after_node(exec_pos)
                /\ UNCHANGED <<executing, inputs>>
           ELSE /\ inputs' = get_inputs_for_node(connections, values, node_id)
                /\ executing' = TRUE
                /\ UNCHANGED <<execution_trace, exec_pos, phase>>
    /\ UNCHANGED <<graph, registry, connections, values, cache, node_outputs,
                   error_node_id, resolve_pos, execution_order, result, raised,
                   runs, trace_base>>

\* finish_node with an except clause that records the error and carries on
finish_node_carries_on ==
    /\ phase = "Running"
    /\ UNCHANGED <<text_vars, service_vars>>
    /\ executing
    /\ LET node_id == execution_order[exec_pos]
           node == find_node(graph, node_id)
       IN  \E o \in node_results(cache, values, node, inputs) :
             IF o.raises
             THEN /\ error_node_id' = node_id
                  /\ execution_trace' = Append(execution_trace,
                          TraceEntry(node_id, "error", o.error))
                  /\ exec_pos' = exec_pos + 1
                  /\ phase' = after_node(exec_pos)
                  /\ UNCHANGED <<node_outputs, values, result, raised>>
             ELSE /\ node_outputs' = (node_id :> o.value) @@ node_outputs
                  /\ values' = set_value(values, node_id, "output", o.value)
                  /\ execution_trace' = Append(execution_trace,
                          TraceEntry(node_id, "success", None))
                  /\ result' = o.value
                  /\ exec_pos' = exec_pos + 1
                  /\ phase' = after_node(exec_pos)
                  /\ UNCHANGED <<error_node_id, raised>>
    /\ executing' = FALSE
    /\ UNCHANGED <<graph, registry, connections, cache, resolve_pos,
                   execution_order, inputs, runs, trace_base>>

\* Step 4, second half: the node returns or raises
finish_node ==
    /\ phase = "Running"
    /\ UNCHANGED <<text_vars, service_vars>>
    /\ executing
    /\ LET node_id == execution_order[exec_pos]
           node == find_node(graph, node_id)
       IN  \E o \in node_results(cache, values, node, inputs) :
             IF o.raises
             THEN /\ error_node_id' = node_id
                  /\ execution_trace' = Append(execution_trace,
                          TraceEntry(node_id, "error", o.error))
                  /\ raised' = o.error
                  /\ phase' = "Failed"
                  /\ UNCHANGED <<node_outputs, values, result, exec_pos>>
             ELSE /\ node_outputs' = (node_id :> o.value) @@ node_outputs
                  /\ values' = set_value(values, node_id, "output", o.value)
                  /\ execution_trace' = Append(execution_trace,
                          TraceEntry(node_id, "success", None))
                  /\ result' = o.value
                  /\ exec_pos' = exec_pos + 1
                  /\ phase' = after_node(exec_pos)
                  /\ UNCHANGED <<error_node_id, raised>>
    /\ executing' = FALSE
    /\ UNCHANGED <<graph, registry, connections, cache, resolve_pos,
                   execution_order, inputs, runs, trace_base>>

\* The caller calls execute_graph again with the same ExecutionContext
execute_graph_again ==
    /\ phase \in {"Completed", "Failed"}
    /\ UNCHANGED <<text_vars, service_vars>>
    /\ runs < MaxRuns
    /\ runs' = runs + 1
    /\ trace_base' = Len(execution_trace)
    /\ phase' = "Idle"
    /\ resolve_pos' = 0
    /\ execution_order' = <<>>
    /\ exec_pos' = 0
    /\ executing' = FALSE
    /\ inputs' = EmptyDict
    /\ result' = JNone
    /\ raised' = None
    /\ UNCHANGED <<graph, registry, connections, values, cache, node_outputs,
                   execution_trace, error_node_id>>

NextEngine ==
    \/ register_port_connections
    \/ resolve_spec_node
    \/ build_execution_order
    \/ begin_node
    \/ finish_node
    \/ execute_graph_again

SpecEngine == InitEngine /\ [][NextEngine]_vars

(***************************************************************************)
(* LibCST trees.  An expression is a record of one shape: e the node       *)
(* class, s its token or name, sub its child expressions, kws the keyword  *)
(* of each child (calls).  A Call holds its func first, then its args; a   *)
(* Dict holds key, value, key, value, ...                                  *)
(***************************************************************************)
Ex(e, s, sub, kws) == [e |-> e, s |-> s, sub |-> sub, kws |-> kws]
NoExpr == Ex("<absent>", "", <<>>, <<>>)
Name(value) == Ex("Name", value, <<>>, <<>>)
Attribute(value, attr) == Ex("Attribute", attr, <<value>>, <<>>)
SimpleString(token) == Ex("SimpleString", token, <<>>, <<>>)
Integer(token) == Ex("Integer", token, <<>>, <<>>)
Float(token) == Ex("Float", token, <<>>, <<>>)
List(elements) == Ex("List", "", elements, <<>>)
Dict(elements) == Ex("Dict", "", elements, <<>>)
UnaryOperation(operator, expression) == Ex("UnaryOperation", operator, <<expression>>, <<>>)
Await(expression) == Ex("Await", "", <<expression>>, <<>>)
Arg(keyword, value) == [keyword |-> keyword, value |-> value]
Call(func, args) ==
    Ex("Call", "", <<func>> \o [i \in 1..Len(args) |-> args[i].value],
       <<None>> \o [i \in 1..Len(args) |-> args[i].keyword])
CallFunc(call) == call.sub[1]
CallArgs(call) == [i \in 1..(Len(call.sub) - 1) |-> Arg(call.kws[i + 1], call.sub[i + 1])]

\* small statements: Expr, Assign, Return, Import, ImportFrom, Pass
Sm(k, target, value, names) == [k |-> k, target |-> target, value |-> value, names |-> names]
Expr(value) == Sm("Expr", None, value, <<>>)
Assign(target, value) == Sm("Assign", target, value, <<>>)
Return(value) == Sm("Return", None, value, <<>>)
Import(names) == Sm("Import", None, NoExpr, names)
ImportFrom(module, names) == Sm("ImportFrom", None, module, names)
ImportStar == <<"*">>
Pass == Sm("Pass", None, NoExpr, <<>>)

\* statements: SimpleStatementLine, FunctionDef, ClassDef, If.  A FunctionDef
\* whose body is a SimpleStatementSuite (def f(): return 1) keeps the suite's
\* small statements in small and has indented = FALSE.
St(k, name, decs, small, body, indented, lead) ==
    [k |-> k, name |-> name, decs |-> decs, small |-> small, body |-> body,
     indented |-> indented, lead |-> lead]
SimpleStatementLine(small) == St("SimpleStatementLine", None, <<>>, small, <<>>, FALSE, "")
CommentedLine(lead, small) == St("SimpleStatementLine", None, <<>>, small, <<>>, FALSE, lead)
FunctionDef(name, decs, body) == St("FunctionDef", name, decs, <<>>, body, TRUE, "")
CommentedFunctionDef(lead, name, decs, body) == St("FunctionDef", name, decs, <<>>, body, TRUE, lead)
SuiteFunctionDef(name, decs, small) == St("FunctionDef", name, decs, small, <<>>, FALSE, "")
ClassDef(name, body) == St("ClassDef", name, <<>>, <<>>, body, TRUE, "")
If(body) == St("If", None, <<>>, <<>>, body, TRUE, "")

(***************************************************************************)
(* Tokens and values.  json.dumps writes a token, evaluated_value / int /  *)
(* float read one.                                                         *)
(***************************************************************************)
DQ == "\""
SQ == "'"

\* the one character outside the Basic Multilingual Plane, and what Python
\* reads back from the escapes json.dumps writes for it: two lone surrogates
Emoji == "U+1F600"
SurrogatePair == "U+D83D U+DE00"
EmojiEscapes == "\\ud83d\\ude00"

PlainStrings ==
    {"", "spec:one", "spec:two", "spec:new", "llm.model", "tool.example", "Model", "Tool",
     "node:analyze", "node:summarize", "output", "input", "temperature", "enabled",
     "maxTokens", "k", "v"}

\* json.dumps(str), ensure_ascii left at its default
json_dumps_str(str) ==
    IF str = Emoji THEN DQ \o EmojiEscapes \o DQ ELSE DQ \o str \o DQ

\* SimpleString.evaluated_value
evaluated_value(token) ==
    IF token = DQ \o EmojiEscapes \o DQ THEN SurrogatePair
    ELSE IF token = DQ \o Emoji \o DQ THEN Emoji
    ELSE IF \E v \in PlainStrings : token \in {DQ \o v \o DQ, SQ \o v \o SQ}
    THEN CHOOSE v \in PlainStrings : token \in {DQ \o v \o DQ, SQ \o v \o SQ}
    ELSE None

\* the tokens cst.Integer and cst.Float accept (INTNUMBER_RE, FLOATNUMBER_RE)
IntegerTokens == {"0", "1", "5", "7", "256", "1000", "0x10", "1_000"}
FloatTokens == {"0.2", "0.7", "1000.0", "1e3"}

\* int(token): the decimal digits of the value, or None when int() raises ValueError
int_of_token(token) ==
    CASE token = "1_000" -> "1000"
      [] token = "0x10" -> None
      [] OTHER -> token

\* float(token), printed as json.dumps prints a float
float_of_token(token) == IF token = "1e3" THEN "1000.0" ELSE token

(***************************************************************************)
(* services/graph_parser.py                                                *)
(***************************************************************************)
NOT_JSONISH == J("_NotJsonish", "", <<>>, <<>>)
NoEdge == Edge(None, None, None, None, None)

decorator_matches(expr, decorator_name) ==
    LET target == IF expr.e = "Call" THEN CallFunc(expr) ELSE expr
    IN  target.e \in {"Name", "Attribute"} /\ target.s = decorator_name

extract_holon_kind(node) ==
    IF \E i \in 1..Len(node.decs) : decorator_matches(node.decs[i], "node") THEN "node"
    ELSE IF \E i \in 1..Len(node.decs) : decorator_matches(node.decs[i], "workflow") THEN "workflow"
    ELSE None

extract_call_from_simple_stmt(stmt) ==
    IF stmt.k # "SimpleStatementLine" \/ Len(stmt.small) # 1 THEN NoExpr
    ELSE IF stmt.small[1].k \in {"Expr", "Assign"} /\ stmt.small[1].value.e = "Call"
         THEN stmt.small[1].value
         ELSE NoExpr

call_matches(expr, name) == expr.e \in {"Name", "Attribute"} /\ expr.s = name

string_expr_value(expr) ==
    IF expr.e = "SimpleString" THEN evaluated_value(expr.s) ELSE None

RECURSIVE jsonish_value(_), jsonish_items(_, _, _), jsonish_entries(_, _, _)

jsonish_dict_literal(expr) ==
    IF expr.e # "Dict" THEN JNone ELSE jsonish_entries(expr.sub, 1, EmptyDict)

\* the loop over a Dict's elements; key at i, value at i + 1
jsonish_entries(elements, i, out) ==
    IF i > Len(elements) THEN out
    ELSE LET key == string_expr_value(elements[i])
             val == jsonish_value(elements[i + 1])
         IN  IF key = None \/ val = NOT_JSONISH THEN JNone
             ELSE jsonish_entries(elements, i + 2, DictSet(out, key, val))

\* the loop over a List's elements
jsonish_items(elements, i, items) ==
    IF i > Len(elements) THEN JList(items)
    ELSE LET v == jsonish_value(elements[i])
         IN  IF v = NOT_JSONISH THEN NOT_JSONISH
             ELSE jsonish_items(elements, i + 1, Append(items, v))

jsonish_value(expr) ==
    CASE expr.e = "SimpleString" ->
            IF evaluated_value(expr.s) = None THEN NOT_JSONISH ELSE JStr(evaluated_value(expr.s))
      [] expr.e = "Integer" ->
            IF int_of_token(expr.s) = None THEN NOT_JSONISH ELSE JInt(int_of_token(expr.s))
      [] expr.e = "Float" -> JFloat(float_of_token(expr.s))
      [] expr.e = "Name" /\ expr.s \in {"True", "False"} -> JBool(expr.s)
      [] expr.e = "Name" /\ expr.s = "None" -> JNone
      [] expr.e = "List" -> jsonish_items(expr.sub, 1, <<>>)
      [] expr.e = "Dict" ->
            IF jsonish_dict_literal(expr) = JNone THEN NOT_JSONISH ELSE jsonish_dict_literal(expr)
      [] OTHER -> NOT_JSONISH

\* the value of the last argument after the first that carries the keyword
keyword_value(args, keyword) ==
    LET at == {i \in 2..Len(args) : args[i].keyword = keyword}
    IN  IF at = {} THEN NoExpr ELSE args[CHOOSE i \in at : \A j \in at : j <= i].value

parse_spec_call(call) ==
    LET args == CallArgs(call)
        node_id == string_expr_value(args[1].value)
        type_value == string_expr_value(keyword_value(args, "type"))
        label_value == string_expr_value(keyword_value(args, "label"))
        props_value == jsonish_dict_literal(keyword_value(args, "props"))
    IN  IF Len(args) = 0 THEN NoNode
        ELSE IF node_id = None \/ type_value = None THEN NoNode
        ELSE Node(node_id, IF Truthy(label_value) THEN label_value ELSE node_id,
                  "spec", label_value, type_value, props_value)

parse_link_call(call) ==
    LET args == CallArgs(call)
        src == string_expr_value(args[1].value)
        src_port == string_expr_value(args[2].value)
        tgt == string_expr_value(args[3].value)
        tgt_port == string_expr_value(args[4].value)
    IN  IF Len(args) < 4 THEN NoEdge
        ELSE IF None \in {src, src_port, tgt, tgt_port} THEN NoEdge
        ELSE Edge(src, tgt, src_port, tgt_port, "link")

\* the Call nodes of an expression in the order a visitor meets them
RECURSIVE calls_in(_), calls_in_each(_, _)
calls_in(expr) ==
    (IF expr.e = "Call" THEN <<expr>> ELSE <<>>) \o calls_in_each(expr.sub, 1)

calls_in_each(exprs, i) ==
    IF i > Len(exprs) THEN <<>> ELSE calls_in(exprs[i]) \o calls_in_each(exprs, i + 1)

\* the Call nodes of the small statements of one line
RECURSIVE calls_in_small(_, _)
calls_in_small(small, i) ==
    IF i > Len(small) THEN <<>> ELSE calls_in(small[i].value) \o calls_in_small(small, i + 1)

\* _HolonFunctionCollector: every decorated FunctionDef, at any depth
RECURSIVE HolonFunctionCollector(_, _)
HolonFunctionCollector(body, i) ==
    IF i > Len(body) THEN <<>>
    ELSE LET stmt == body[i]
             kind == extract_holon_kind(stmt)
             own == IF stmt.k = "FunctionDef" /\ kind # None
                    THEN <<Node(kind \o ":" \o stmt.name, stmt.name, kind, None, None, JNone)>>
                    ELSE <<>>
         IN  own \o HolonFunctionCollector(stmt.body, 1) \o HolonFunctionCollector(body, i + 1)

\* _SpecNodeCollector.visit_Module: module-level statements only
RECURSIVE SpecNodeCollector(_, _)
SpecNodeCollector(body, i) ==
    IF i > Len(body) THEN <<>>
    ELSE LET call == extract_call_from_simple_stmt(body[i])
             spec_node == IF call # NoExpr /\ call_matches(CallFunc(call), "spec")
                          THEN parse_spec_call(call) ELSE NoNode
         IN  (IF spec_node = NoNode THEN <<>> ELSE <<spec_node>>) \o SpecNodeCollector(body, i + 1)

\* the state the two workflow collectors carry through a traversal
Collected(workflow_stack, edges) == [workflow_stack |-> workflow_stack, edges |-> edges]

\* _WorkflowEdgeCollector.visit_Call
edge_visit_Call(node_names, call, st) ==
    LET callee == CallFunc(call).s
        e == Edge("workflow:" \o st.workflow_stack[Len(st.workflow_stack)],
                  "node:" \o callee, None, None, "code")
    IN  IF st.workflow_stack = <<>> \/ CallFunc(call).e # "Name" \/ callee \notin node_names THEN st
        ELSE IF \E j \in 1..Len(st.edges) :
                    st.edges[j].source = e.source /\ st.edges[j].target = e.target THEN st
        ELSE [st EXCEPT !.edges = Append(@, e)]

\* _WorkflowLinkCollector.visit_Call
link_visit_Call(call, st) ==
    LET l == parse_link_call(call)
    IN  IF st.workflow_stack = <<>> \/ ~call_matches(CallFunc(call), "link") \/ l = NoEdge THEN st
        ELSE IF \E j \in 1..Len(st.edges) : st.edges[j] = l THEN st
        ELSE [st EXCEPT !.edges = Append(@, l)]

visit_Call(collector, node_names, call, st) ==
    IF collector = "edge" THEN edge_visit_Call(node_names, call, st) ELSE link_visit_Call(call, st)

RECURSIVE visit_calls(_, _, _, _, _)
visit_calls(collector, node_names, calls, i, st) ==
    IF i > Len(calls) THEN st
    ELSE visit_calls(collector, node_names, calls, i + 1,
                     visit_Call(collector, node_names, calls[i], st))

\* leave_FunctionDef of both workflow collectors
leave_FunctionDef(node, st) ==
    IF st.workflow_stack # <<>> /\ st.workflow_stack[Len(st.workflow_stack)] = node.name
    THEN [st EXCEPT !.workflow_stack = SubSeq(@, 1, Len(@) - 1)]
    ELSE st

\* one traversal of a body by _WorkflowEdgeCollector or _WorkflowLinkCollector:
\* visit_FunctionDef refuses to descend while a workflow is open, and
\* leave_FunctionDef runs whether or not the children were visited
RECURSIVE WorkflowCollector(_, _, _, _, _)
WorkflowCollector(collector, node_names, body, i, st) ==
    IF i > Len(body) THEN st
    ELSE LET stmt == body[i]
             opened == IF extract_holon_kind(stmt) = "workflow"
                       THEN [st EXCEPT !.workflow_stack = Append(@, stmt.name)] ELSE st
             decorated == visit_calls(collector, node_names, calls_in_each(stmt.decs, 1), 1, opened)
             inside == IF stmt.indented
                       THEN WorkflowCollector(collector, node_names, stmt.body, 1, decorated)
                       ELSE visit_calls(collector, node_names,
                                        calls_in_small(stmt.small, 1), 1, decorated)
             after ==
                CASE stmt.k = "SimpleStatementLine" ->
                        visit_calls(collector, node_names, calls_in_small(stmt.small, 1), 1, st)
                  [] stmt.k = "FunctionDef" ->
                        leave_FunctionDef(stmt, IF st.workflow_stack # <<>> THEN st ELSE inside)
                  [] OTHER -> WorkflowCollector(collector, node_names, stmt.body, 1, st)
         IN  WorkflowCollector(collector, node_names, body, i + 1, after)

parse_graph_edges_first(module) ==
    LET nodes == HolonFunctionCollector(module, 1)
        node_names == {nodes[j].name : j \in {j \in 1..Len(nodes) : nodes[j].kind = "node"}}
    IN  Graph(SpecNodeCollector(module, 1) \o nodes,
              WorkflowCollector("link", node_names, module, 1, Collected(<<>>, <<>>)).edges
              \o WorkflowCollector("edge", node_names, module, 1, Collected(<<>>, <<>>)).edges)

parse_graph(module) ==
    LET nodes == HolonFunctionCollector(module, 1)
        node_names == {nodes[j].name : j \in {j \in 1..Len(nodes) : nodes[j].kind = "node"}}
    IN  Graph(nodes \o SpecNodeCollector(module, 1),
              WorkflowCollector("edge", node_names, module, 1, Collected(<<>>, <<>>)).edges
              \o WorkflowCollector("link", node_names, module, 1, Collected(<<>>, <<>>)).edges)

(***************************************************************************)
(* services/patcher.py                                                     *)
(***************************************************************************)
\* what an operation hands back: the new module, or the exception it raised
Patched(code) == [raises |-> None, code |-> code]
Raised(exception, code) == [raises |-> exception, code |-> code]

is_decorated_as(func, decorator_name) ==
    \E i \in 1..Len(func.decs) : decorator_matches(func.decs[i], decorator_name)

\* sorted({"spec", "link"}), the names both inserting transformers require
RequiredNames == <<"link", "spec">>

is_holon_import(sm) ==
    sm.k = "ImportFrom" /\ sm.value = Name("holon") /\ sm.names # ImportStar

\* _ImportEdit.leave_ImportFrom
leave_ImportFrom(sm, required) ==
    IF ~is_holon_import(sm) THEN sm
    ELSE [sm EXCEPT !.names = @ \o SelectSeq(required, LAMBDA n : n \notin Range(sm.names))]

\* module.visit(_ImportEdit()): every ImportFrom of the tree, at any depth
RECURSIVE ImportEdit(_, _)
ImportEdit(body, required) ==
    [i \in 1..Len(body) |->
        [body[i] EXCEPT !.small = [j \in 1..Len(@) |-> leave_ImportFrom(@[j], required)],
                        !.body = ImportEdit(@, required)]]

\* _ImportEdit.found after the visit
RECURSIVE import_found(_)
import_found(body) ==
    \E i \in 1..Len(body) :
        \/ \E j \in 1..Len(body[i].small) : is_holon_import(body[i].small[j])
        \/ import_found(body[i].body)

\* the index after the last module-level import line, 0 when there is none
insert_at_import(body) ==
    LET imports == {i \in 1..Len(body) :
                        /\ body[i].k = "SimpleStatementLine"
                        /\ Len(body[i].small) > 0
                        /\ body[i].small[1].k \in {"Import", "ImportFrom"}}
    IN  IF imports = {} THEN 0 ELSE CHOOSE i \in imports : \A j \in imports : j <= i

\* list.insert(at, stmt) with at counted from 0
insert(body, at, stmt) == SubSeq(body, 1, at) \o <<stmt>> \o SubSeq(body, at + 1, Len(body))

ensure_holon_imports(module, required) ==
    IF import_found(module) THEN ImportEdit(module, required)
    ELSE insert(module, insert_at_import(module),
                SimpleStatementLine(<<ImportFrom(Name("holon"), required)>>))

\* a node LibCST refuses to construct (CSTValidationError)
Invalid == Ex("CSTValidationError", "", <<>>, <<>>)

\* str(int) and json.dumps(float): the digits, with the sign
number_token(value) == value.s

RECURSIVE to_cst_jsonish(_)
to_cst_jsonish(value) ==
    CASE value.t = "NoneType" -> Name("None")
      [] value.t = "bool" -> Name(value.s)
      [] value.t = "int" ->
            IF number_token(value) \in IntegerTokens THEN Integer(number_token(value)) ELSE Invalid
      [] value.t = "float" ->
            IF number_token(value) \in FloatTokens THEN Float(number_token(value)) ELSE Invalid
      [] value.t = "str" -> SimpleString(json_dumps_str(value.s))
      [] value.t = "list" -> List([i \in 1..Len(value.items) |-> to_cst_jsonish(value.items[i])])
      [] value.t = "dict" ->
            Dict([i \in 1..(2 * Len(value.keys)) |->
                    IF i % 2 = 1 THEN SimpleString(json_dumps_str(value.keys[(i + 1) \div 2]))
                    ELSE to_cst_jsonish(value.items[i \div 2])])

\* whether building the expression raised somewhere inside it
RECURSIVE is_invalid(_)
is_invalid(expr) == expr = Invalid \/ \E i \in 1..Len(expr.sub) : is_invalid(expr.sub[i])

\* the exception int() raises inside _from_cst_jsonish
FromCstRaised == J("ValueError", "invalid literal for int()", <<>>, <<>>)

RECURSIVE from_cst_jsonish(_), from_cst_entries(_, _, _)
from_cst_jsonish(expr) ==
    CASE expr.e = "SimpleString" ->
            IF evaluated_value(expr.s) = None THEN JNone ELSE JStr(evaluated_value(expr.s))
      [] expr.e = "Integer" ->
            IF int_of_token(expr.s) = None THEN FromCstRaised ELSE JInt(int_of_token(expr.s))
      [] expr.e = "Float" -> JFloat(float_of_token(expr.s))
      [] expr.e = "Name" /\ expr.s \in {"True", "False"} -> JBool(expr.s)
      [] expr.e = "List" ->
            LET items == [i \in 1..Len(expr.sub) |-> from_cst_jsonish(expr.sub[i])]
            IN  IF FromCstRaised \in Range(items) THEN FromCstRaised ELSE JList(items)
      [] expr.e = "Dict" -> from_cst_entries(expr.sub, 1, EmptyDict)
      [] OTHER -> JNone

\* the loop over a Dict's elements; key at i, value at i + 1
from_cst_entries(elements, i, out) ==
    IF i > Len(elements) THEN out
    ELSE LET k == string_expr_value(elements[i])
             v == from_cst_jsonish(elements[i + 1])
         IN  IF k = None THEN JNone
             ELSE IF v = FromCstRaised THEN FromCstRaised
             ELSE from_cst_entries(elements, i + 2, DictSet(out, k, v))

\* _RenameNodeTransformer.leave_Call over an expression; within is
\* _is_within_workflow: the nearest enclosing FunctionDef is a workflow
RECURSIVE rename_expr(_, _, _, _)
rename_expr(expr, within, old_name, new_name) ==
    LET updated_node ==
            [expr EXCEPT !.sub = [i \in 1..Len(@) |-> rename_expr(@[i], within, old_name, new_name)]]
    IN  IF expr.e = "Call" /\ within /\ CallFunc(expr).e = "Name" /\ CallFunc(expr).s = old_name
        THEN [updated_node EXCEPT !.sub[1] = Name(new_name)]
        ELSE updated_node

is_within_workflow(node, within) ==
    IF node.k = "FunctionDef" THEN is_decorated_as(node, "workflow") ELSE within

\* _RenameNodeTransformer over the statements of a body
RECURSIVE RenameNodeTransformer(_, _, _, _)
RenameNodeTransformer(body, within, old_name, new_name) ==
    [i \in 1..Len(body) |->
        LET inner == is_within_workflow(body[i], within)
        IN  [body[i] EXCEPT
                !.name = IF body[i].k = "FunctionDef" /\ is_decorated_as(body[i], "node")
                            /\ @ = old_name
                         THEN new_name ELSE @,
                !.decs = [j \in 1..Len(@) |-> rename_expr(@[j], inner, old_name, new_name)],
                !.small = [j \in 1..Len(@) |->
                            [@[j] EXCEPT !.value = rename_expr(@, inner, old_name, new_name)]],
                !.body = RenameNodeTransformer(@, inner, old_name, new_name)]]

rename_node(source_code, old_name, new_name) ==
    IF old_name = new_name THEN Raised("ValueError", source_code)
    ELSE IF old_name = "" \/ new_name = "" THEN Raised("ValueError", source_code)
    ELSE Patched(RenameNodeTransformer(source_code, FALSE, old_name, new_name))

\* the top-level FunctionDefs of the replacement text
parse_single_function(code) == SelectSeq(code, LAMBDA stmt : stmt.k = "FunctionDef")

RECURSIVE PatchNodeTransformer(_, _, _)
PatchNodeTransformer(body, node_name, replacement) ==
    [i \in 1..Len(body) |->
        IF body[i].k = "FunctionDef" /\ is_decorated_as(body[i], "node") /\ body[i].name = node_name
        THEN replacement
        ELSE [body[i] EXCEPT !.body = PatchNodeTransformer(@, node_name, replacement)]]

patch_node(source_code, node_name, new_function_code) ==
    IF Len(parse_single_function(new_function_code)) # 1 THEN Raised("ValueError", source_code)
    ELSE Patched(PatchNodeTransformer(source_code, node_name,
                                      parse_single_function(new_function_code)[1]))

\* the arguments both spec writers build: id, type=, then label= and props= when not None
spec_args(node_id, node_type, label, props) ==
    <<Arg(None, SimpleString(json_dumps_str(node_id))),
      Arg("type", SimpleString(json_dumps_str(node_type)))>>
    \o (IF label # None THEN <<Arg("label", SimpleString(json_dumps_str(label)))>> ELSE <<>>)
    \o (IF props # JNone THEN <<Arg("props", to_cst_jsonish(props))>> ELSE <<>>)

\* _AddSpecNodeTransformer.leave_Module
add_spec_node(source_code, node_id, node_type, label, props) ==
    LET updated_node == ensure_holon_imports(source_code, RequiredNames)
        stmt == SimpleStatementLine(
                    <<Expr(Call(Name("spec"), spec_args(node_id, node_type, label, props)))>>)
    IN  IF is_invalid(to_cst_jsonish(props)) THEN Raised("CSTValidationError", source_code)
        ELSE Patched(insert(updated_node, insert_at_import(updated_node), stmt))

link_stmt(source_node_id, source_port, target_node_id, target_port) ==
    SimpleStatementLine(
        <<Expr(Call(Name("link"),
                    <<Arg(None, SimpleString(json_dumps_str(source_node_id))),
                      Arg(None, SimpleString(json_dumps_str(source_port))),
                      Arg(None, SimpleString(json_dumps_str(target_node_id))),
                      Arg(None, SimpleString(json_dumps_str(target_port)))>>))>>)

\* where _AddLinkTransformer puts the link: before a final return, else at the end
insert_link(stmts, stmt) ==
    IF /\ Len(stmts) > 0
       /\ stmts[Len(stmts)].k = "SimpleStatementLine"
       /\ Len(stmts[Len(stmts)].small) > 0
       /\ stmts[Len(stmts)].small[1].k = "Return"
    THEN insert(stmts, Len(stmts) - 1, stmt)
    ELSE Append(stmts, stmt)

\* _AddLinkTransformer.leave_FunctionDef over the statements of a body
RECURSIVE AddLinkTransformer(_, _, _)
AddLinkTransformer(body, workflow_name, stmt) ==
    [i \in 1..Len(body) |->
        LET updated_node == [body[i] EXCEPT !.body = AddLinkTransformer(@, workflow_name, stmt)]
        IN  IF /\ body[i].k = "FunctionDef"
               /\ is_decorated_as(body[i], "workflow")
               /\ body[i].name = workflow_name
               /\ body[i].indented
            THEN [updated_node EXCEPT !.body = insert_link(@, stmt)]
            ELSE updated_node]

add_link(source_code, workflow_name, source_node_id, source_port, target_node_id, target_port) ==
    Patched(ensure_holon_imports(
                AddLinkTransformer(source_code, workflow_name,
                                   link_stmt(source_node_id, source_port,
                                             target_node_id, target_port)),
                RequiredNames))

\* the keyword arguments of patch_spec_node
PatchSpecParams(node_id, node_type, label, props, set_node_type, set_label, set_props) ==
    [node_id |-> node_id, node_type |-> node_type, label |-> label, props |-> props,
     set_node_type |-> set_node_type, set_label |-> set_label, set_props |-> set_props]

extract_spec_call_fields(call) ==
    [type |-> string_expr_value(keyword_value(CallArgs(call), "type")),
     label |-> string_expr_value(keyword_value(CallArgs(call), "label")),
     props |-> from_cst_jsonish(keyword_value(CallArgs(call), "props"))]

\* the state _PatchSpecNodeTransformer carries: its flag, the exception that
\* ended the visit, and the statements rebuilt so far
Visited(patched, raises, out) == [patched |-> patched, raises |-> raises, out |-> out]

leave_SimpleStatementLine(stmt, p, st) ==
    LET call == extract_call_from_simple_stmt(stmt)
        current == extract_spec_call_fields(call)
        next_type == IF p.set_node_type THEN p.node_type ELSE current.type
        next_label == IF p.set_label THEN p.label ELSE current.label
        next_props == IF p.set_props THEN p.props ELSE current.props
        new_call == [call EXCEPT
                        !.sub = <<CallFunc(call)>> \o
                                [j \in 1..Len(spec_args(p.node_id, next_type, next_label, next_props))
                                    |-> spec_args(p.node_id, next_type, next_label, next_props)[j].value],
                        !.kws = <<None>> \o
                                [j \in 1..Len(spec_args(p.node_id, next_type, next_label, next_props))
                                    |-> spec_args(p.node_id, next_type, next_label, next_props)[j].keyword]]
        kept == [st EXCEPT !.out = Append(@, stmt)]
    IN  IF st.patched \/ call = NoExpr THEN kept
        ELSE IF ~call_matches(CallFunc(call), "spec") \/ Len(CallArgs(call)) = 0 THEN kept
        ELSE IF string_expr_value(CallArgs(call)[1].value) # p.node_id THEN kept
        ELSE IF current.props = FromCstRaised THEN [kept EXCEPT !.raises = "ValueError"]
        ELSE IF ~Truthy(next_type) THEN [kept EXCEPT !.raises = "ValueError"]
        ELSE IF is_invalid(to_cst_jsonish(next_props))
             THEN [kept EXCEPT !.raises = "CSTValidationError"]
        ELSE Visited(TRUE, None,
                     Append(st.out, [stmt EXCEPT !.small = <<[@[1] EXCEPT !.value = new_call]>>]))

\* _PatchSpecNodeTransformer over the statements of a body, in source order
RECURSIVE PatchSpecNodeTransformer(_, _, _, _)
PatchSpecNodeTransformer(body, i, p, st) ==
    IF i > Len(body) \/ st.raises # None THEN st
    ELSE IF body[i].k = "SimpleStatementLine"
         THEN PatchSpecNodeTransformer(body, i + 1, p, leave_SimpleStatementLine(body[i], p, st))
         ELSE LET inner == PatchSpecNodeTransformer(body[i].body, 1, p,
                                                    Visited(st.patched, None, <<>>))
              IN  PatchSpecNodeTransformer(body, i + 1, p,
                      Visited(inner.patched, inner.raises,
                              Append(st.out, [body[i] EXCEPT !.body = inner.out])))

patch_spec_node(source_code, p) ==
    LET visited == PatchSpecNodeTransformer(source_code, 1, p, Visited(FALSE, None, <<>>))
    IN  IF visited.raises # None THEN Raised(visited.raises, source_code)
        ELSE IF ~visited.patched THEN Raised("ValueError", source_code)
        ELSE Patched(visited.out)

(***************************************************************************)
(* The texts the Extractor and the Patcher are run on.  A text is its      *)
(* module body; a token keeps its spelling, a statement its leading        *)
(* comment.                                                                *)
(***************************************************************************)
Line(small) == SimpleStatementLine(<<small>>)
CallOf(name, args) == Call(Name(name), [i \in 1..Len(args) |-> Arg(None, args[i])])

PlainImport == <<Line(ImportFrom(Name("holon"), <<"node", "workflow">>))>>
FullImport ==
    <<Line(ImportFrom(Name("holon"), <<"node", "workflow", "spec", "link">>)),
      Line(Import(<<"json">>))>>
StarImport == <<Line(ImportFrom(Name("holon"), ImportStar))>>

NodeDefs ==
    <<CommentedFunctionDef("# analyze the input", "analyze", <<Name("node")>>,
                           <<Line(Return(Integer("1")))>>),
      FunctionDef("summarize", <<Call(Attribute(Name("holon"), "node"), <<>>)>>,
                  <<Line(Return(Name("x")))>>)>>

SpecOne ==
    Line(Expr(Call(Name("spec"),
        <<Arg(None, SimpleString(DQ \o "spec:one" \o DQ)),
          Arg("type", SimpleString(DQ \o "llm.model" \o DQ)),
          Arg("label", SimpleString(DQ \o "Model" \o DQ)),
          Arg("props", Dict(<<SimpleString(DQ \o "temperature" \o DQ), Float("0.2")>>))>>)))

SpecAssigned ==
    Line(Assign("model", Call(Name("spec"),
        <<Arg(None, SimpleString(SQ \o "spec:one" \o SQ)),
          Arg("type", SimpleString(SQ \o "llm.model" \o SQ)),
          Arg("props", Dict(<<SimpleString(SQ \o "k" \o SQ),
                              UnaryOperation("-", Integer("5"))>>)),
          Arg("extra", Name("True"))>>)))

SpecTwo ==
    Line(Expr(Call(Name("spec"),
        <<Arg(None, SimpleString(DQ \o "spec:two" \o DQ)),
          Arg("type", SimpleString(DQ \o "tool.example" \o DQ))>>)))

\* props holding a value that is not a literal: a name, inside a list
SpecComputed ==
    Line(Expr(Call(Name("spec"),
        <<Arg(None, SimpleString(DQ \o "spec:two" \o DQ)),
          Arg("type", SimpleString(DQ \o "tool.example" \o DQ)),
          Arg("props", Dict(<<SimpleString(DQ \o "enabled" \o DQ), Name("True"),
                              SimpleString(DQ \o "k" \o DQ), List(<<Name("limit")>>)>>))>>)))

SpecLines == {<<>>, <<SpecOne>>, <<SpecAssigned, SpecTwo>>, <<SpecOne, SpecComputed>>}

LinkLine ==
    Line(Expr(CallOf("link", <<SimpleString(DQ \o "node:analyze" \o DQ),
                               SimpleString(DQ \o "output" \o DQ),
                               SimpleString(DQ \o "node:summarize" \o DQ),
                               SimpleString(DQ \o "input" \o DQ)>>)))

CallsBoth ==
    <<Line(Assign("x", Await(CallOf("analyze", <<>>)))),
      Line(Assign("y", CallOf("summarize", <<Name("x")>>)))>>

\* calls, then a return
PlainWorkflow ==
    FunctionDef("main", <<Name("workflow")>>, CallsBoth \o <<Line(Return(Name("y")))>>)

\* calls and a link, then a return
LinkedWorkflow ==
    FunctionDef("main", <<Name("workflow")>>,
                CallsBoth \o <<LinkLine, Line(Return(Name("y")))>>)

\* def main(): return analyze()
SuiteWorkflow ==
    SuiteFunctionDef("main", <<Name("workflow")>>, <<Return(CallOf("analyze", <<>>))>>)

\* a nested helper that calls the node, a qualified call, a longer name
NestingWorkflow ==
    FunctionDef("main", <<Name("workflow")>>,
                <<FunctionDef("inner", <<>>, <<Line(Return(CallOf("analyze", <<>>)))>>),
                  If(<<Line(Expr(CallOf("analyze", <<CallOf("analyze_all", <<>>)>>)))>>),
                  Line(Expr(Call(Attribute(Name("holon"), "analyze"), <<>>))),
                  LinkLine>>)

\* decorated as a workflow and as a node
NodeWorkflow ==
    FunctionDef("main", <<Name("workflow"), Name("node")>>,
                <<Line(Expr(CallOf("analyze", <<>>)))>>)

\* a nested class whose body calls a node; a nested function of the
\* workflow's own name, then a call
ShadowingWorkflow ==
    FunctionDef("main", <<Name("workflow")>>,
                <<ClassDef("Config", <<Line(Assign("value", CallOf("analyze", <<>>)))>>),
                  FunctionDef("main", <<>>, <<Line(Pass)>>),
                  Line(Assign("y", CallOf("summarize", <<>>))),
                  Line(Return(Name("y")))>>)

Workflows ==
    {PlainWorkflow, LinkedWorkflow, SuiteWorkflow, NestingWorkflow, NodeWorkflow,
     ShadowingWorkflow}

Helper ==
    <<FunctionDef("helper", <<>>,
                  <<Line(ImportFrom(Name("holon"), <<"spec">>)),
                    Line(Expr(CallOf("spec", <<SimpleString(DQ \o "spec:two" \o DQ)>>))),
                    Line(Return(CallOf("analyze", <<>>)))>>)>>

\* a class whose method is a node of the name of a module-level node
Steps ==
    <<ClassDef("Steps", <<FunctionDef("analyze", <<Name("node")>>, <<Line(Pass)>>)>>)>>

SourceOf(imports, helpers, specs, w) == imports \o helpers \o specs \o NodeDefs \o <<w>>

Sources ==
    {SourceOf(PlainImport, <<>>, specs, w) : specs \in SpecLines, w \in Workflows}
    \cup {SourceOf(imports, helpers, <<SpecOne>>, w) :
                imports \in {FullImport, StarImport}, helpers \in {<<>>, Helper},
                w \in {PlainWorkflow, LinkedWorkflow}}
    \cup {SourceOf(PlainImport, Helper, specs, w) :
                specs \in SpecLines, w \in {PlainWorkflow, NestingWorkflow}}
    \cup {SourceOf(PlainImport, Steps, <<SpecOne>>, PlainWorkflow)}
    \cup {SourceOf(<<>>, helpers, <<SpecOne>>, PlainWorkflow) : helpers \in {<<>>, Helper}}

(***************************************************************************)
(* The calls a client makes on a text.                                     *)
(***************************************************************************)
Operation(op, name, new_name, code, node, set, edge) ==
    [op |-> op, name |-> name, new_name |-> new_name, code |-> code, node |-> node,
     set |-> set, edge |-> edge]
NoOperation == Operation(None, None, None, <<>>, NoNode, <<>>, NoEdge)

\* a parse_graph call: the text given, the Graph returned, the Patcher calls made before it
Extraction(source_code, g, after) ==
    [text |-> source_code, graph |-> g, made |-> TRUE, after |-> after]
NoExtraction == [text |-> <<>>, graph |-> Graph(<<>>, <<>>), made |-> FALSE, after |-> 0]

\* the Node parse_graph builds for spec(id, type=, label=, props=)
SpecNode(node_id, node_type, label, props) ==
    Node(node_id, IF Truthy(label) THEN label ELSE node_id, "spec", label, node_type, props)

RenameArgs ==
    {<<"analyze", "analyze_v2">>, <<"analyze", "analyze">>, <<"missing", "other">>,
     <<"summarize", "digest">>, <<"analyze_all", "scan">>}

Replacements ==
    {<<FunctionDef("analyze", <<Name("node")>>, <<Line(Return(Integer("7")))>>)>>,
     <<Line(Import(<<"json">>)),
       FunctionDef("renamed", <<Name("node")>>, <<Line(Return(Integer("7")))>>)>>,
     <<FunctionDef("analyze", <<Name("node")>>, <<Line(Pass)>>),
       FunctionDef("other", <<>>, <<Line(Pass)>>)>>,
     <<Line(Pass)>>}

AddSpecArgs ==
    {SpecNode("spec:new", "tool.example", None, JNone),
     SpecNode("spec:new", "tool.example", "Tool",
              JDict(<<"enabled", "maxTokens", "temperature", "k">>,
                    <<JBool("True"), JInt("256"), JFloat("0.7"), JList(<<JStr("v"), JNone>>)>>)),
     SpecNode("spec:new", "tool.example", None, JDict(<<"k">>, <<JInt("-5")>>)),
     SpecNode("spec:new", "tool.example", None, JDict(<<"k">>, <<JStr(Emoji)>>)),
     SpecNode("spec:one", "tool.example", "Tool",
              JDict(<<"k">>, <<JDict(<<"v">>, <<JFloat("0.7")>>)>>))}

AddLinkArgs ==
    {Edge("node:analyze", "node:summarize", "output", "input", "link"),
     Edge("spec:one", "node:analyze", "output", "input", "link")}

PatchSpecArgs ==
    {PatchSpecParams("spec:one", None, "Tool", JNone, FALSE, TRUE, FALSE),
     PatchSpecParams("spec:one", None, None, JDict(<<"k">>, <<JStr("v")>>), FALSE, FALSE, TRUE),
     PatchSpecParams("spec:one", None, None, JNone, TRUE, FALSE, FALSE),
     PatchSpecParams("spec:one", "tool.example", None, JNone, TRUE, TRUE, TRUE),
     PatchSpecParams("spec:two", None, None, JNone, FALSE, FALSE, FALSE),
     PatchSpecParams("spec:two", "llm.model", None, JNone, TRUE, FALSE, FALSE),
     PatchSpecParams("spec:missing", None, "Tool", JNone, FALSE, TRUE, FALSE)}

EngineConstructed ==
    /\ connections = <<>>
    /\ values = <<>>
    /\ cache = <<>>
    /\ node_outputs = <<>>
    /\ execution_trace = <<>>
    /\ error_node_id = None
    /\ phase = "Idle"
    /\ resolve_pos = 0
    /\ execution_order = <<>>
    /\ exec_pos = 0
    /\ executing = FALSE
    /\ inputs = EmptyDict
    /\ result = JNone
    /\ raised = None
    /\ runs = 1
    /\ trace_base = 0

InitText ==
    /\ module_text \in Sources
    /\ original = module_text
    /\ operation = NoOperation
    /\ outcome = None
    /\ patches = 0
    /\ previous = NoExtraction
    /\ latest = NoExtraction
    /\ graph = Graph(<<>>, <<>>)
    /\ registry = BuiltinRegistry
    /\ EngineConstructed
    /\ ServicesIdle

\* the caller keeps the text a call returned, and its old text when the call raised
returned(op, r) ==
    /\ patches' = patches + 1
    /\ original' = module_text
    /\ operation' = op
    /\ outcome' = r.raises
    /\ module_text' = r.code
    /\ UNCHANGED <<previous, latest>>
    /\ UNCHANGED <<engine_vars, service_vars>>

call_rename_node ==
    /\ patches < MaxPatches
    /\ \E a \in RenameArgs :
        returned(Operation("rename_node", a[1], a[2], <<>>, NoNode, <<>>, NoEdge),
                 rename_node(module_text, a[1], a[2]))

call_patch_node ==
    /\ patches < MaxPatches
    /\ \E node_name \in {"analyze", "missing"}, code \in Replacements :
        returned(Operation("patch_node", node_name, None, code, NoNode, <<>>, NoEdge),
                 patch_node(module_text, node_name, code))

call_add_spec_node ==
    /\ patches < MaxPatches
    /\ \E n \in AddSpecArgs :
        returned(Operation("add_spec_node", None, None, <<>>, n, <<>>, NoEdge),
                 add_spec_node(module_text, n.id, n.node_type, n.label, n.props))

call_add_link ==
    /\ patches < MaxPatches
    /\ \E workflow_name \in {"main", "missing"}, e \in AddLinkArgs :
        returned(Operation("add_link", workflow_name, None, <<>>, NoNode, <<>>, e),
                 add_link(module_text, workflow_name, e.source, e.source_port,
                          e.target, e.target_port))

call_patch_spec_node ==
    /\ patches < MaxPatches
    /\ \E p \in PatchSpecArgs :
        returned(Operation("patch_spec_node", None, None, <<>>,
                           SpecNode(p.node_id, p.node_type, p.label, p.props),
                           <<p.set_node_type, p.set_label, p.set_props>>, NoEdge),
                 patch_spec_node(module_text, p))

call_parse_graph ==
    /\ previous' = latest
    /\ latest' = Extraction(module_text, parse_graph(module_text), patches)
    /\ UNCHANGED <<module_text, original, operation, outcome, patches>>
    /\ UNCHANGED <<engine_vars, service_vars>>

NextText ==
    \/ call_rename_node
    \/ call_patch_node
    \/ call_add_spec_node
    \/ call_add_link
    \/ call_patch_spec_node
    \/ call_parse_graph

SpecText == InitText /\ [][NextText]_vars

(***************************************************************************)
(* Vocabulary of the properties of a run.                                  *)
(***************************************************************************)
\* the trace entries appended by the current execute_graph call
RunTrace == SubSeq(execution_trace, trace_base + 1, Len(execution_trace))

\* the node whose execution has begun and not yet ended, or None
CurrentNode == IF phase = "Running" /\ executing THEN execution_order[exec_pos] ELSE None

\* node_id has run to completion in the current call
CompletedInRun(node_id) ==
    /\ \E i \in 1..Len(RunTrace) : RunTrace[i] = TraceEntry(node_id, "success", None)
    /\ node_id \in DOMAIN node_outputs
    /\ <<node_id, "output">> \in DOMAIN values

\* the dependency relation the explicit links put on the executable nodes
ExecLinks(g) ==
    LET conns == link_connections(g.edges, 1)
    IN  {<<conns[i].source_node, conns[i].target_node>> : i \in
            {j \in 1..Len(conns) : /\ conns[j].source_node \in executable(g)
                                   /\ conns[j].target_node \in executable(g)}}

RECURSIVE ReachableIn(_, _, _)
ReachableIn(R, from, n) ==
    IF n = 0 THEN from
    ELSE LET prev == ReachableIn(R, from, n - 1)
         IN  prev \cup {r[2] : r \in {q \in R : q[1] \in prev}}

LinksAcyclic(g) ==
    \A n \in executable(g) :
        n \notin ReachableIn(ExecLinks(g), {r[2] : r \in {q \in ExecLinks(g) : q[1] = n}},
                             Cardinality(executable(g)))

(***************************************************************************)
(* C1 (as stated): for every explicit-link or implicit-call edge A -> B,   *)
(* A has fully completed (output stored, trace entry appended) before B    *)
(* begins executing, for every graph.                                      *)
(***************************************************************************)
C1_EveryEdgeOrdered ==
    \A i \in 1..Len(graph.edges) :
        CurrentNode = graph.edges[i].target => CompletedInRun(graph.edges[i].source)

(***************************************************************************)
(* C1 (amended): for every explicit link A -> B with non-empty port names  *)
(* between two executable nodes, in a graph whose explicit links put no    *)
(* cycle on the executable nodes, A has fully completed before B begins    *)
(* executing.                                                              *)
(***************************************************************************)
C1_LinkOrderAcyclic ==
    CurrentNode # None =>
        \A r \in ExecLinks(graph) :
            (CurrentNode = r[2] /\ LinksAcyclic(graph)) => CompletedInRun(r[1])

C1_Witness ==
    /\ CurrentNode # None
    /\ Len(execution_order) >= 3
    /\ \E r \in ExecLinks(graph) : CurrentNode = r[2] /\ CompletedInRun(r[1])
    /\ LinksAcyclic(graph)

(***************************************************************************)
(* C2: execution is fail-fast.  A node that raises ends the run: its error *)
(* entry is the last entry of the trace, the exception reaches the caller, *)
(* ctx.error_node_id names the node, and no node later in the execution    *)
(* order is executed, gets a trace entry or has a port value written.      *)
(***************************************************************************)
\* the value only resolution may have stored for a node that did not run
OnlyResolutionWrote(node_id) ==
    <<node_id, "output">> \in DOMAIN values =>
        /\ node_id \in DOMAIN cache
        /\ values[<<node_id, "output">>] = cache[node_id].runtime_object

C3_InputObservesOutput ==
    CurrentNode # None =>
        \A i \in 1..Len(graph.edges) :
            LET e == graph.edges[i]
            IN  (/\ e.kind = "link"
                 /\ e.target = CurrentNode
                 /\ CompletedInRun(e.source))
                => /\ \E p \in 1..Len(inputs.keys) : inputs.keys[p] = e.target_port
                   /\ DictGet(inputs, e.target_port, JNone) = node_outputs[e.source]

(***************************************************************************)
(* Vocabulary of the properties of a Patcher call.                         *)
(***************************************************************************)
\* the latest Patcher call returned a text
Succeeded(op) == operation.op = op /\ outcome = None

\* every statement of a text, at any depth
RECURSIVE Statements(_)
Statements(body) ==
    {body[i] : i \in 1..Len(body)} \cup UNION {Statements(body[i].body) : i \in 1..Len(body)}

\* every expression a statement holds directly, and all their subexpressions
RECURSIVE SubExpressions(_)
SubExpressions(expr) == {expr} \cup UNION {SubExpressions(expr.sub[i]) : i \in 1..Len(expr.sub)}

ExpressionsOf(stmt) ==
    UNION ({SubExpressions(stmt.small[j].value) : j \in 1..Len(stmt.small)}
           \cup {SubExpressions(stmt.decs[j]) : j \in 1..Len(stmt.decs)})

IsDeclaration(stmt, decorator_name, name) ==
    stmt.k = "FunctionDef" /\ is_decorated_as(stmt, decorator_name) /\ stmt.name = name

\* a line importing from holon
HolonImportLine(stmt) ==
    /\ stmt.k = "SimpleStatementLine"
    /\ \E j \in 1..Len(stmt.small) :
            stmt.small[j].k = "ImportFrom" /\ stmt.small[j].value = Name("holon")

\* the names a text imports from holon, anywhere
HolonNames(body) ==
    UNION {UNION {Range(stmt.small[j].names) : j \in 1..Len(stmt.small)} :
            stmt \in {st \in Statements(body) : HolonImportLine(st)}}

WithoutHolonImports(body) == SelectSeq(body, LAMBDA stmt : ~HolonImportLine(stmt))

RemoveAt(body, k) == SubSeq(body, 1, k - 1) \o SubSeq(body, k + 1, Len(body))

\* the statement add_spec_node is asked to insert
RequestedSpec ==
    SimpleStatementLine(<<Expr(Call(Name("spec"),
        spec_args(operation.node.id, operation.node.node_type, operation.node.label,
                  operation.node.props)))>>)

\* the statement add_link is asked to insert
RequestedLink ==
    link_stmt(operation.edge.source, operation.edge.source_port,
              operation.edge.target, operation.edge.target_port)

\* the module-level statement the latest call was aimed at
Targeted(stmt) ==
    CASE operation.op = "rename_node" ->
            \/ IsDeclaration(stmt, "node", operation.name)
            \/ stmt.k = "FunctionDef" /\ is_decorated_as(stmt, "workflow")
      [] operation.op = "patch_node" -> IsDeclaration(stmt, "node", operation.name)
      [] operation.op = "add_link" -> IsDeclaration(stmt, "workflow", operation.name)
      [] operation.op = "patch_spec_node" ->
            /\ extract_call_from_simple_stmt(stmt) # NoExpr
            /\ call_matches(CallFunc(extract_call_from_simple_stmt(stmt)), "spec")
      [] OTHER -> FALSE

\* the latest call found nothing to edit and had nothing to insert
NothingToDo ==
    CASE operation.op \in {"rename_node", "patch_node"} ->
            \A stmt \in Statements(original) : ~IsDeclaration(stmt, "node", operation.name)
      [] operation.op = "add_link" ->
            \A stmt \in Statements(original) : ~IsDeclaration(stmt, "workflow", operation.name)
      [] OTHER -> FALSE

\* two texts that agree statement by statement outside the targeted ones
SameOutsideTarget(before, after) ==
    /\ Len(after) = Len(before)
    /\ \A i \in 1..Len(before) : ~Targeted(before[i]) => after[i] = before[i]

(***************************************************************************)
(* C4 (as stated): locality.  After any Patcher call that returns, every   *)
(* statement of the output that is not the targeted one equals the         *)
(* statement of the input it came from; an insertion may besides add to    *)
(* the holon import only the one name its statement needs and the text     *)
(* does not import yet; and a call that matches no target and inserts      *)
(* nothing returns its input.                                              *)
(***************************************************************************)
C4_Locality ==
    /\ (operation.op # None /\ outcome = None /\ NothingToDo) => module_text = original
    /\ (\E op \in {"rename_node", "patch_node", "patch_spec_node"} : Succeeded(op))
            => SameOutsideTarget(original, module_text)
    /\ Succeeded("add_link") =>
            /\ SameOutsideTarget(WithoutHolonImports(original), WithoutHolonImports(module_text))
            /\ HolonNames(module_text) \ HolonNames(original) \subseteq {"link"}
            /\ "*" \in HolonNames(original) => HolonNames(module_text) = HolonNames(original)
    /\ Succeeded("add_spec_node") =>
            /\ \E k \in 1..Len(WithoutHolonImports(module_text)) :
                    /\ WithoutHolonImports(module_text)[k] = RequestedSpec
                    /\ RemoveAt(WithoutHolonImports(module_text), k)
                            = WithoutHolonImports(original)
            /\ HolonNames(module_text) \ HolonNames(original) \subseteq {"spec"}
            /\ "*" \in HolonNames(original) => HolonNames(module_text) = HolonNames(original)

\* the statements lexically inside a workflow declaration, the declaration included
InsideWorkflows(body) ==
    UNION {{w} \cup Statements(w.body) :
            w \in {st \in Statements(body) : st.k = "FunctionDef" /\ is_decorated_as(st, "workflow")}}

\* the names a set of statements calls directly
CalledNames(stmts) ==
    {CallFunc(e).s : e \in {x \in UNION {ExpressionsOf(st) : st \in stmts} :
                                x.e = "Call" /\ CallFunc(x).e = "Name"}}

(***************************************************************************)
(* C5 (as stated): scope-limited rename.  After rename_node(old, new) the  *)
(* node declaration named old is named new, no direct call old(...) is     *)
(* left anywhere inside a workflow declaration, at any nesting depth, and  *)
(* every statement outside the workflows and every other called name is    *)
(* as it was.                                                              *)
(***************************************************************************)
C5_ScopeLimitedRename ==
    Succeeded("rename_node") =>
        /\ (\E st \in Statements(original) : IsDeclaration(st, "node", operation.name)) =>
                /\ \A st \in Statements(module_text) : ~IsDeclaration(st, "node", operation.name)
                /\ \E st \in Statements(module_text) : IsDeclaration(st, "node", operation.new_name)
        /\ operation.name \notin CalledNames(InsideWorkflows(module_text))
        /\ SameOutsideTarget(original, module_text)
        /\ CalledNames(Statements(module_text)) \ {operation.name, operation.new_name}
                = CalledNames(Statements(original)) \ {operation.name, operation.new_name}

\* a sequence with one element added somewhere
PlusOne(after, before, x) ==
    \E k \in 1..Len(after) : after[k] = x /\ RemoveAt(after, k) = before

\* node:old replaced by node:new in the nodes and edges of a graph
Renamed(g, old_name, new_name) ==
    LET id(x) == IF x = "node:" \o old_name THEN "node:" \o new_name ELSE x
    IN  Graph([i \in 1..Len(g.nodes) |->
                    IF g.nodes[i].id = "node:" \o old_name
                    THEN [g.nodes[i] EXCEPT !.id = "node:" \o new_name, !.name = new_name]
                    ELSE g.nodes[i]],
              [i \in 1..Len(g.edges) |->
                    [g.edges[i] EXCEPT !.source = id(@), !.target = id(@)]])

(***************************************************************************)
(* C6 (as stated): closed loop between Patcher and Extractor.  After a     *)
(* Patcher call that returns, the graph of the output is the graph of the  *)
(* input with exactly the edit: one more spec node with the id, type,      *)
(* label and props given to add_spec_node; one more link edge after        *)
(* add_link on an existing workflow; node:old replaced by node:new in      *)
(* nodes and edges after rename_node.                                      *)
(***************************************************************************)
C6_ClosedLoop ==
    LET before == parse_graph(original)
        after == parse_graph(module_text)
    IN  /\ Succeeded("add_spec_node") =>
                /\ PlusOne(after.nodes, before.nodes, operation.node)
                /\ after.edges = before.edges
        /\ (/\ Succeeded("add_link")
            /\ \E st \in Statements(original) : IsDeclaration(st, "workflow", operation.name)) =>
                /\ after.nodes = before.nodes
                /\ PlusOne(after.edges, before.edges, operation.edge)
        /\ Succeeded("rename_node") =>
                after = Renamed(before, operation.name, operation.new_name)

\* the decorated function declarations of a text, in source order
RECURSIVE DeclarationsInOrder(_, _)
DeclarationsInOrder(body, i) ==
    IF i > Len(body) THEN <<>>
    ELSE (IF body[i].k = "FunctionDef" /\ extract_holon_kind(body[i]) # None
          THEN <<extract_holon_kind(body[i]) \o ":" \o body[i].name>> ELSE <<>>)
         \o DeclarationsInOrder(body[i].body, 1) \o DeclarationsInOrder(body, i + 1)

\* the ids of the module-level spec declarations of a text, in source order
SpecIdsInOrder(body) ==
    LET declared(stmt) ==
            /\ extract_call_from_simple_stmt(stmt) # NoExpr
            /\ call_matches(CallFunc(extract_call_from_simple_stmt(stmt)), "spec")
            /\ parse_spec_call(extract_call_from_simple_stmt(stmt)) # NoNode
        lines == SelectSeq(body, declared)
    IN  [i \in 1..Len(lines) |-> parse_spec_call(extract_call_from_simple_stmt(lines[i])).id]

ScenarioGraph == Graph(FunctionNodes, CodeEdges)

C8_Scenario ==
    (graph = ScenarioGraph /\ phase = "Completed") =>
        /\ result = JInt("16")
        /\ RunTrace = <<TraceEntry("node:add", "success", None),
                        TraceEntry("node:multiply", "success", None)>>

(***************************************************************************)
(* C9: the trace holds exactly one entry per step attempted so far, in     *)
(* attempt order, every entry but the last is a success, and the run ends  *)
(* in failure iff the trace ends with an error entry naming the failing    *)
(* step, a failure of the spec-resolution step included.                   *)
(***************************************************************************)
C9_TraceRecordsEveryStep ==
    /\ \A k \in 1..Len(RunTrace) :
          /\ RunTrace[k].node_id = execution_order[k]
          /\ k < Len(RunTrace) => RunTrace[k].status = "success"
    /\ phase \in {"Running", "Completed"} => Len(RunTrace) = exec_pos - 1
    /\ phase = "Failed" <=>
          /\ RunTrace # <<>>
          /\ RunTrace[Len(RunTrace)].status = "error"
          /\ RunTrace[Len(RunTrace)].error = raised

(***************************************************************************)
(* C10: a declarative node whose type has no registered resolver never     *)
(* fails the run and resolves to an object exposing exactly its declared   *)
(* properties, unchanged.                                                  *)
(***************************************************************************)
C10_PropertyBag ==
    \A i \in 1..Len(graph.nodes) :
        LET n == graph.nodes[i]
        IN  (/\ needs_resolution(n)
             /\ ~has_resolver(registry, n.node_type)
             /\ phase # "Idle")
            => /\ ~(phase = "Failed" /\ resolve_pos = i)
               /\ i < resolve_pos =>
                    /\ n.id \in DOMAIN cache
                    /\ cache[n.id].runtime_object =
                          J("SimpleNamespace", "", props_or_empty(n.props).keys,
                            props_or_empty(n.props).items)

(***************************************************************************)
(* C11 (as stated): a resolution failure is fatal with no partial          *)
(* resolution.  When resolving a declarative node raises in the first      *)
(* execute_graph call on a context, the call aborts, no node has been      *)
(* executed, and nothing resolved earlier in that call is left in the      *)
(* resolution cache or in the port registry.                               *)
(***************************************************************************)
ResolutionFailed == phase = "Failed" /\ execution_order = <<>>

C11_NoPartialResolution ==
    (ResolutionFailed /\ runs = 1) =>
        /\ raised # None
        /\ RunTrace = <<>>
        /\ node_outputs = <<>>
        /\ cache = <<>>
        /\ values = <<>>

\* a statement declaring the spec node of the given id
IsSpecDeclaration(stmt, node_id) ==
    /\ extract_call_from_simple_stmt(stmt) # NoExpr
    /\ call_matches(CallFunc(extract_call_from_simple_stmt(stmt)), "spec")
    /\ Len(CallArgs(extract_call_from_simple_stmt(stmt))) > 0
    /\ string_expr_value(CallArgs(extract_call_from_simple_stmt(stmt))[1].value) = node_id

\* the latest call named a declaration the text does not have
TargetMissing ==
    CASE operation.op \in {"rename_node", "patch_node"} ->
            \A stmt \in Statements(original) : ~IsDeclaration(stmt, "node", operation.name)
      [] operation.op = "patch_spec_node" ->
            \A stmt \in Statements(original) : ~IsSpecDeclaration(stmt, operation.node.id)
      [] OTHER -> FALSE

(***************************************************************************)
(* C12 (as stated): TargetNotFound.  rename_node, patch_node and           *)
(* patch_spec_node called with a name or id that matches no declaration    *)
(* of the text raise instead of returning text, and the text is as it was: *)
(* no call site is rewritten.                                              *)
(***************************************************************************)
C12_TargetNotFound ==
    TargetMissing => (outcome # None /\ module_text = original)

(***************************************************************************)
(* C13 (as stated): the Graph parse_graph returns has no two nodes with    *)
(* the same id, whatever the text: declarations of one name in different   *)
(* scopes, a declaration with both markers, two spec declarations of one   *)
(* id.                                                                     *)
(***************************************************************************)
C13_UniqueNodeIds ==
    latest.made =>
        \A i, j \in 1..Len(latest.graph.nodes) :
            latest.graph.nodes[i].id = latest.graph.nodes[j].id => i = j

(***************************************************************************)
(* C14 (as stated): every edge of the Graph parse_graph returns, implicit  *)
(* call edge or explicit link, has a source and a target that are ids of   *)
(* nodes of that Graph; only a workflow's own start id is exempt.          *)
(***************************************************************************)
C14_EdgesReferenceNodes ==
    latest.made =>
        LET ids == {latest.graph.nodes[i].id : i \in 1..Len(latest.graph.nodes)}
        IN  \A i \in 1..Len(latest.graph.edges) :
                \A end \in {latest.graph.edges[i].source, latest.graph.edges[i].target} :
                    end \in ids \/ startswith_workflow(end)

\* the module-level statement patch_spec_node matches: the first declaring the
\* id, when no nested statement declares it; 0 when there is none
MatchedAt ==
    LET at == {i \in 1..Len(original) : IsSpecDeclaration(original[i], operation.node.id)}
        nested == {st \in Statements(original) : IsSpecDeclaration(st, operation.node.id)}
                    \ Range(original)
    IN  IF at = {} \/ nested # {} THEN 0 ELSE CHOOSE i \in at : \A j \in at : i <= j

\* what a field of a declaration is worth: its value when it is a literal,
\* else the expression it is written as
FieldValue(expr) ==
    IF expr = NoExpr THEN <<"absent">>
    ELSE IF jsonish_value(expr) # NOT_JSONISH THEN <<"value", jsonish_value(expr)>>
    ELSE <<"expression", expr>>

FieldOf(stmt, keyword) ==
    FieldValue(keyword_value(CallArgs(extract_call_from_simple_stmt(stmt)), keyword))

(***************************************************************************)
(* C15 (as stated): patch_spec_node changes only the flagged fields.       *)
(* Every unflagged field of the matched declaration, literal or not, is    *)
(* in the output declaration with an unchanged value, and a flagged field  *)
(* given as None is removed or written as None.                            *)
(***************************************************************************)
C15_UnflaggedFieldsKept ==
    (Succeeded("patch_spec_node") /\ MatchedAt # 0) =>
        LET before == original[MatchedAt]
            after == module_text[MatchedAt]
            given == <<operation.node.node_type = None, operation.node.label = None,
                       operation.node.props = JNone>>
            keyword == <<"type", "label", "props">>
        IN  \A f \in 1..3 :
                IF operation.set[f]
                THEN given[f] => FieldOf(after, keyword[f]) \in {<<"absent">>, <<"value", JNone>>}
                ELSE FieldOf(after, keyword[f]) = FieldOf(before, keyword[f])

\* a replacement text that is one declaration and nothing else
SingleDeclaration(code) == Len(code) = 1 /\ code[1].k = "FunctionDef"

(***************************************************************************)
(* C16 (as stated): InvalidReplacement.  patch_node returns text only when *)
(* new_function_code is exactly one declaration and nothing else; with no  *)
(* declaration, several, or one declaration next to other statements it    *)
(* raises.  When it returns text and the target exists, every statement of *)
(* the replacement is in the output.                                       *)
(***************************************************************************)
C16_InvalidReplacement ==
    operation.op = "patch_node" =>
        /\ ~SingleDeclaration(operation.code) => outcome # None
        /\ (outcome = None /\ ~TargetMissing) =>
                \A i \in 1..Len(operation.code) : operation.code[i] \in Statements(module_text)

(***************************************************************************)
(* WorkflowRunner (runner.py).  A file is a path and, when it exists, the   *)
(* module its text defines: what executing its top-level code raises and   *)
(* the attributes it leaves, in the order dir() lists them.  Exceptions    *)
(* are named by their class.                                               *)
(***************************************************************************)
MaxCalls == 2

\* the classes `except Exception` does not catch
BaseExceptions == {"SystemExit", "KeyboardInterrupt", "CancelledError"}
IsException(e) == e \notin BaseExceptions

\* a module attribute: a function (decorated or not), a @node(type=...) class,
\* the object a resolver made, or None
Attr(a, kind, is_async, raises, output, spec_type, spec_id, resolves) ==
    [a |-> a, kind |-> kind, is_async |-> is_async, raises |-> raises, output |-> output,
     spec_type |-> spec_type, spec_id |-> spec_id, resolves |-> resolves]
Function(kind, is_async, raises, output) ==
    Attr("function", kind, is_async, raises, output, None, None, None)
SpecClass(spec_type, spec_id, resolves) ==
    Attr("class", "node_library", FALSE, None, None, spec_type, spec_id, resolves)
ResolvedObject(spec_type) == Attr("object", None, FALSE, None, None, spec_type, None, None)
NoneValue == Attr("None", None, FALSE, None, None, None, None, None)

Module(raises, attrs) == [raises |-> raises, attrs |-> attrs]
NoModule == Module(None, <<>>)
File(exists, name, module) == [exists |-> exists, name |-> name, module |-> module]

\* Path.suffix and Path.stem of a name given as its dot-separated parts
suffix(name) == IF Len(name) > 1 THEN name[Len(name)] ELSE ""
stem(name) == IF Len(name) > 1 THEN SubSeq(name, 1, Len(name) - 1) ELSE name
endswith_holon_py(name) ==
    Len(name) >= 3 /\ name[Len(name) - 1] = "holon" /\ name[Len(name)] = "py"

\* _resolve_module_specs (runner.py 248-298) from the i-th attribute on: the
\* attributes, the cache and the exception that left it
RECURSIVE resolve_module_specs(_, _, _)
resolve_module_specs(attrs, i, cached) ==
    IF i > Len(attrs) THEN [attrs |-> attrs, spec_cache |-> cached, raises |-> None]
    ELSE LET attr == attrs[i].value
             spec_id == attr.spec_id
         IN  IF attr.a = "None" \/ attr.kind # "node_library" \/ attr.spec_type = None
             THEN resolve_module_specs(attrs, i + 1, cached)
             ELSE IF spec_id # None /\ spec_id \in Range(cached.keys)
             THEN resolve_module_specs(
                      [attrs EXCEPT ![i].value = DictGet(cached, spec_id, None)], i + 1, cached)
             ELSE IF attr.resolves = None
             THEN resolve_module_specs(
                      [attrs EXCEPT ![i].value = ResolvedObject(attr.spec_type)], i + 1,
                      IF spec_id # None
                      THEN DictSet(cached, spec_id, ResolvedObject(attr.spec_type))
                      ELSE cached)
             ELSE IF attr.resolves = "ValueError"
             THEN resolve_module_specs(attrs, i + 1, cached)
             ELSE [attrs |-> attrs, spec_cache |-> cached, raises |-> attr.resolves]

\* getattr(module, workflow_name, None)
getattr(attrs, attr_name) ==
    LET at == {i \in 1..Len(attrs) : attrs[i].name = attr_name}
    IN  IF at = {} THEN NoneValue ELSE attrs[CHOOSE i \in at : TRUE].value

\* the functions a source defines under the name main
Functions ==
    {Function(kind, is_async, raises, "out") :
        kind \in {None, "node", "workflow"}, is_async \in BOOLEAN,
        raises \in {None, "RuntimeError", "SystemExit"}}

ModelClass(resolves) == <<[name |-> "Model", value |-> SpecClass("llm.model", "spec:llm", resolves)]>>

\* the modules of the files: the class Model (if any) sorts before main
Modules ==
    {Module(raises, <<>>) : raises \in {"SyntaxError", "SystemExit"}}
    \cup {Module(None, classes \o entry) :
            classes \in {<<>>, ModelClass(None), ModelClass("ValueError"), ModelClass("RuntimeError")},
            entry \in {<<>>, <<[name |-> "main", value |-> NoneValue]>>}
                      \cup {<<[name |-> "main", value |-> f]>> : f \in Functions}}

Files ==
    {File(FALSE, <<"nonexistent", "holon", "py">>, NoModule),
     File(TRUE, <<"test", "txt">>, NoModule),
     File(TRUE, <<"flow", "py">>, Module(None, <<[name |-> "main",
                                   value |-> Function("workflow", FALSE, None, "out")]>>))}
    \cup {File(TRUE, <<"flow", "holon", "py">>, m) : m \in Modules}

Invocation(op, file_path, workflow_name, workflow_fn) ==
    [op |-> op, file_path |-> file_path, workflow_name |-> workflow_name,
     workflow_fn |-> workflow_fn]

InitRunner ==
    /\ resolve_specs \in BOOLEAN
    /\ RunnerConstructed
    /\ RegistryConstructed
    /\ ServerNotStarted
    /\ graph = Graph(<<>>, <<>>)
    /\ registry = BuiltinRegistry
    /\ EngineConstructed
    /\ BufferNotCreated
    /\ module_text = <<>>
    /\ original = <<>>
    /\ operation = NoOperation
    /\ outcome = None
    /\ patches = 0
    /\ previous = NoExtraction
    /\ latest = NoExtraction

\* the call returns r
returns(r) ==
    /\ execution_result' = r
    /\ propagated' = None
    /\ runner_pc' = "returned"

\* e leaves a try block of the runner: `except Exception` turns it into a result
leaves_try(e) ==
    IF IsException(e) THEN returns(ExecutionResult(None, e))
    ELSE /\ propagated' = e
         /\ runner_pc' = "raised"
         /\ execution_result' = NoResult

\* run_workflow_file up to the try block (runner.py 95-136)
run_workflow_file ==
    /\ runner_pc \in {"idle", "returned", "raised"}
    /\ invocations < MaxCalls
    /\ \E file_path \in Files, workflow_name \in {"main", "missing"} :
        /\ invocation' = Invocation("run_workflow_file", file_path, workflow_name, NoneValue)
        /\ IF ~file_path.exists
           THEN returns(ExecutionResult(None, "FileNotFoundError"))
           ELSE IF ~(suffix(file_path.name) = "py") \/ ~endswith_holon_py(file_path.name)
           THEN returns(ExecutionResult(None, "ValueError"))
           ELSE /\ runner_pc' = "load"
                /\ execution_result' = NoResult
                /\ propagated' = None
    /\ invocations' = invocations + 1
    /\ loaded' = <<>>
    /\ executed' = <<>>
    /\ thrown' = None
    /\ UNCHANGED <<resolve_specs, spec_cache, sys_modules>>
    /\ UNCHANGED <<engine_vars, text_vars, registry_vars, rpc_vars, buffer_vars>>

\* _load_module (runner.py 212-246), called at runner.py 142
load_module ==
    /\ runner_pc = "load"
    /\ LET file_path == invocation.file_path
           module == file_path.module
           module_name == stem(file_path.name)
           resolved == IF resolve_specs
                       THEN resolve_module_specs(module.attrs, 1, spec_cache)
                       ELSE [attrs |-> module.attrs, spec_cache |-> spec_cache, raises |-> None]
       IN  /\ executed' = Append(executed, "<module>")
           /\ IF module.raises # None
              THEN /\ thrown' = module.raises
                   /\ sys_modules' = IF IsException(module.raises)
                                     THEN sys_modules \ {module_name}
                                     ELSE sys_modules \cup {module_name}
                   /\ leaves_try(module.raises)
                   /\ UNCHANGED <<spec_cache, loaded>>
              ELSE /\ thrown' = None
                   /\ spec_cache' = resolved.spec_cache
                   /\ IF resolved.raises # None
                      THEN /\ sys_modules' = IF IsException(resolved.raises)
                                             THEN sys_modules \ {module_name}
                                             ELSE sys_modules \cup {module_name}
                           /\ leaves_try(resolved.raises)
                           /\ UNCHANGED loaded
                      ELSE /\ sys_modules' = sys_modules \cup {module_name}
                           /\ loaded' = resolved.attrs
                           /\ runner_pc' = "find"
                           /\ UNCHANGED <<execution_result, propagated>>
    /\ UNCHANGED <<resolve_specs, invocation, invocations>>
    /\ UNCHANGED <<engine_vars, text_vars, registry_vars, rpc_vars, buffer_vars>>

\* finding and verifying the workflow function (runner.py 146-165)
find_workflow ==
    /\ runner_pc = "find"
    /\ LET workflow_fn == getattr(loaded, invocation.workflow_name)
       IN  IF workflow_fn = NoneValue
           THEN /\ returns(ExecutionResult(None, "AttributeError"))
                /\ UNCHANGED invocation
           ELSE IF workflow_fn.kind # "workflow"
           THEN /\ returns(ExecutionResult(None, "TypeError"))
                /\ UNCHANGED invocation
           ELSE /\ invocation' = [invocation EXCEPT !.workflow_fn = workflow_fn]
                /\ runner_pc' = "run"
                /\ UNCHANGED <<execution_result, propagated>>
    /\ UNCHANGED <<resolve_specs, spec_cache, sys_modules, loaded, executed, thrown,
                   invocations>>
    /\ UNCHANGED <<engine_vars, text_vars, registry_vars, rpc_vars, buffer_vars>>

\* a direct call of run_workflow(workflow_fn)
call_run_workflow ==
    /\ runner_pc \in {"idle", "returned", "raised"}
    /\ invocations < MaxCalls
    /\ \E workflow_fn \in Functions :
        invocation' = Invocation("run_workflow", File(FALSE, <<>>, NoModule), None, workflow_fn)
    /\ runner_pc' = "run"
    /\ invocations' = invocations + 1
    /\ loaded' = <<>>
    /\ executed' = <<>>
    /\ thrown' = None
    /\ execution_result' = NoResult
    /\ propagated' = None
    /\ UNCHANGED <<resolve_specs, spec_cache, sys_modules>>
    /\ UNCHANGED <<engine_vars, text_vars, registry_vars, rpc_vars, buffer_vars>>

\* run_workflow (runner.py 178-210): the function is awaited or called
run_workflow ==
    /\ runner_pc = "run"
    /\ LET workflow_fn == invocation.workflow_fn
       IN  /\ executed' = Append(executed, "workflow_fn")
           /\ thrown' = workflow_fn.raises
           /\ IF workflow_fn.raises # None
              THEN leaves_try(workflow_fn.raises)
              ELSE returns(ExecutionResult(workflow_fn.output, None))
    /\ UNCHANGED <<resolve_specs, spec_cache, sys_modules, invocation, loaded, invocations>>
    /\ UNCHANGED <<engine_vars, text_vars, registry_vars, rpc_vars, buffer_vars>>

NextRunner ==
    \/ run_workflow_file
    \/ load_module
    \/ find_workflow
    \/ call_run_workflow
    \/ run_workflow

SpecRunner == InitRunner /\ [][NextRunner]_vars

\* a call of the runner that is over
CallOver == runner_pc \in {"returned", "raised"}

(***************************************************************************)
(* C17 (as stated): an execution failure is surfaced as the run's result,  *)
(* not thrown.  run_workflow_file and run_workflow never raise for an      *)
(* exception raised while loading the module or running the workflow: they *)
(* return an ExecutionResult whose error is that exception and whose       *)
(* success is False; and success is True exactly when error is None.       *)
(***************************************************************************)
C17_FailureIsResult ==
    CallOver =>
        /\ propagated = None
        /\ thrown # None => (execution_result.error = thrown /\ ~success(execution_result))
        /\ success(execution_result) <=> execution_result.error = None

\* the entry point the call asked for, as the file defines it; NotAWorkflow is a
\* call on a file that loaded and defines it without the workflow annotation
EntryPoint == getattr(invocation.file_path.module.attrs, invocation.workflow_name)

FileCall == invocation.op = "run_workflow_file" /\ CallOver

NotAWorkflow ==
    /\ FileCall
    /\ invocation.file_path.exists
    /\ endswith_holon_py(invocation.file_path.name)
    /\ loaded # <<>>
    /\ EntryPoint.a = "function"
    /\ EntryPoint.kind # "workflow"

(***************************************************************************)
(* C18 (as stated): NotAWorkflow is reported before any execution begins.  *)
(* When the entry point exists and is not workflow-annotated the call      *)
(* returns a failed result (TypeError) and no code of the source has been  *)
(* executed; a missing file, a file not named .holon.py and a missing      *)
(* entry point each yield their own error without the entry point being    *)
(* called.                                                                 *)
(***************************************************************************)
C18_NotAWorkflowBeforeExecution ==
    /\ NotAWorkflow =>
            /\ propagated = None
            /\ execution_result.error = "TypeError"
            /\ executed = <<>>
    /\ (FileCall /\ ~invocation.file_path.exists) =>
            (execution_result.error = "FileNotFoundError" /\ executed = <<>>)
    /\ (FileCall /\ invocation.file_path.exists
                 /\ ~endswith_holon_py(invocation.file_path.name)) =>
            (execution_result.error = "ValueError" /\ executed = <<>>)
    /\ (FileCall /\ execution_result.error = "AttributeError") =>
            "workflow_fn" \notin Range(executed)

(***************************************************************************)
(* SpecTypeRegistry (registry.py 49-128): register, resolve, has_resolver  *)
(* called in any order on one registry.                                    *)
(***************************************************************************)
MaxRegistryCalls == 3

TypeIds == {"test.type", "exists.type", "unknown.type"}
Resolvers == {"_resolve_memory_buffer", "resolve_langchain_tool"}
PropsChoices == {EmptyDict, JDict(<<"name">>, <<JStr("search")>>)}

\* SpecTypeRegistry.register with the first registration kept
register_keeps_first(reg, type_id, resolver) ==
    IF type_id \in DOMAIN reg THEN reg ELSE reg @@ (type_id :> resolver)

\* SpecTypeRegistry.register: self._resolvers[type_id] = resolver
register(reg, type_id, resolver) ==
    [t \in DOMAIN reg \cup {type_id} |-> IF t = type_id THEN resolver ELSE reg[t]]

RegistryCall(op, type_id, resolver, props, before, returns_value) ==
    [op |-> op, type_id |-> type_id, resolver |-> resolver, props |-> props,
     before |-> before, returns |-> returns_value]

InitRegistry ==
    /\ RegistryConstructed
    /\ resolve_specs = TRUE
    /\ RunnerConstructed
    /\ ServerNotStarted
    /\ graph = Graph(<<>>, <<>>)
    /\ registry = BuiltinRegistry
    /\ EngineConstructed
    /\ BufferNotCreated
    /\ module_text = <<>>
    /\ original = <<>>
    /\ operation = NoOperation
    /\ outcome = None
    /\ patches = 0
    /\ previous = NoExtraction
    /\ latest = NoExtraction

call_register ==
    /\ Len(registrations) < MaxRegistryCalls
    /\ \E type_id \in TypeIds, resolver \in Resolvers :
        /\ resolvers' = register(resolvers, type_id, resolver)
        /\ registrations' = Append(registrations, <<type_id, resolver>>)
        /\ registry_call' = RegistryCall("register", type_id, resolver, EmptyDict, resolvers,
                                         Outcome(FALSE, JNone, None))
    /\ UNCHANGED <<engine_vars, text_vars, runner_vars, rpc_vars, buffer_vars>>

call_resolve ==
    /\ Len(registrations) < MaxRegistryCalls
    /\ \E type_id \in TypeIds, props \in PropsChoices :
        \E r \in registry_resolve(resolvers, type_id, props) :
            registry_call' = RegistryCall("resolve", type_id, None, props, resolvers, r)
    /\ UNCHANGED <<resolvers, registrations>>
    /\ UNCHANGED <<engine_vars, text_vars, runner_vars, rpc_vars, buffer_vars>>

call_has_resolver ==
    /\ Len(registrations) < MaxRegistryCalls
    /\ \E type_id \in TypeIds :
        registry_call' = RegistryCall("has_resolver", type_id, None, EmptyDict, resolvers,
                                      Outcome(FALSE, JBool(IF has_resolver(resolvers, type_id)
                                                           THEN "True" ELSE "False"), None))
    /\ UNCHANGED <<resolvers, registrations>>
    /\ UNCHANGED <<engine_vars, text_vars, runner_vars, rpc_vars, buffer_vars>>

NextRegistry ==
    \/ call_register
    \/ call_resolve
    \/ call_has_resolver

SpecRegistry == InitRegistry /\ [][NextRegistry]_vars

\* the register calls that named type_id, and the resolver of the last of them
RegisteredAt(type_id) == {i \in 1..Len(registrations) : registrations[i][1] = type_id}
LastRegistered(type_id) ==
    registrations[CHOOSE i \in RegisteredAt(type_id) : \A j \in RegisteredAt(type_id) : j <= i][2]

(***************************************************************************)
(* C19: the registry is additive and the last registration wins.           *)
(* has_resolver(t) is true exactly when some call registered t; resolve(t, *)
(* props) returns what the most recently registered resolver of t does     *)
(* with props; registering a type changes no other type; resolve of a type *)
(* never registered raises ValueError; resolve and has_resolver leave the  *)
(* registry as it was.                                                     *)
(***************************************************************************)
C19_LastRegistrationWins ==
    /\ \A t \in TypeIds :
            /\ has_resolver(resolvers, t) <=> RegisteredAt(t) # {}
            /\ RegisteredAt(t) # {} => resolvers[t] = LastRegistered(t)
    /\ registry_call.op = "has_resolver" =>
            /\ registry_call.returns.value
                    = JBool(IF RegisteredAt(registry_call.type_id) # {} THEN "True" ELSE "False")
            /\ resolvers = registry_call.before
    /\ registry_call.op = "resolve" =>
            /\ resolvers = registry_call.before
            /\ IF RegisteredAt(registry_call.type_id) = {}
               THEN /\ registry_call.returns.raises
                    /\ registry_call.returns.error
                            = "ValueError: No resolver registered for spec type"
               ELSE registry_call.returns
                        \in ResolverResults(LastRegistered(registry_call.type_id),
                                            registry_call.props)
    /\ registry_call.op = "register" =>
            \A t \in TypeIds \ {registry_call.type_id} :
                /\ t \in DOMAIN resolvers <=> t \in DOMAIN registry_call.before
                /\ t \in DOMAIN resolvers => resolvers[t] = registry_call.before[t]

\* a type registered twice with different resolvers, then resolved
C19_Witness ==
    /\ registry_call.op = "resolve"
    /\ \E i, j \in RegisteredAt(registry_call.type_id) :
            i < j /\ registrations[i][2] # registrations[j][2]
    /\ ~registry_call.returns.raises

(***************************************************************************)
(* The stdio RPC server (rpc/server.py).  A line of stdin is blank, not    *)
(* JSON, JSON nested deeper than the decoder recurses, or a JSON value: a  *)
(* request.  The params of a request carry the source as the text it       *)
(* parses to and the other fields as the arguments of the Patcher call.    *)
(***************************************************************************)
MaxLines == 2

\* a string holding a surrogate code point on its own, as json.loads gives for "\ud800"
LoneSurrogate == "U+D800"
Surrogates == {LoneSurrogate, SurrogatePair}

\* what a line of stdin is to json.loads
InputLine(kind, request) == [kind |-> kind, request |-> request]

Params(t, valid, parses, source, args) ==
    [t |-> t, valid |-> valid, parses |-> parses, source |-> source, args |-> args]
NoParams == Params("missing", FALSE, FALSE, <<>>, NoOperation)
Object(source, args) == Params("object", TRUE, TRUE, source, args)

Request(t, id, method, params) == [t |-> t, id |-> id, method |-> method, params |-> params]

\* an exception and its str()
Exc(class, str) == [class |-> class, str |-> str]
NoExc == Exc(None, "")

\* the message of a response: a text and the value formatted into it
Message(text, arg) == [text |-> text, arg |-> arg]
Absent == [kind |-> "absent", value |-> <<>>]
Result(kind, value) == [kind |-> kind, value |-> value]
Response(id, res, err) == [id |-> id, result |-> res, error |-> err]
Error(id, message) == Response(id, Absent, [kind |-> "error", value |-> message])

\* _parse_params (rpc/server.py 246-262): the params or the exception raised
parse_params(value) ==
    IF value.t = "missing" THEN Exc("ValueError", "[{'type': 'missing', 'loc': ('source',)}]")
    ELSE IF value.t # "object" THEN Exc("ValueError", "params must be an object")
    ELSE IF ~value.valid THEN Exc("ValueError", "[{'type': 'string_type', 'loc': ('source',)}]")
    ELSE NoExc

\* _format_error (rpc/server.py 265-267): str(exc).strip() or the class name
format_error(exc) ==
    IF exc.str \in {"", " "} THEN Message(exc.class, "") ELSE Message(exc.str, "")

\* delete_node: removes the module-level declaration of node_id, and raises
\* when there is none
delete_node(source_code, node_id) ==
    LET declares(stmt) ==
            \/ IsSpecDeclaration(stmt, node_id)
            \/ stmt.k = "FunctionDef" /\ is_decorated_as(stmt, "node")
                                      /\ "node:" \o stmt.name = node_id
    IN  IF \A j \in 1..Len(source_code) : ~declares(source_code[j])
        THEN Raised("ValueError", source_code)
        ELSE Patched(SelectSeq(source_code, LAMBDA stmt : ~declares(stmt)))

\* the Patcher call of a method on the validated params
patcher_call(method, params) ==
    LET source == params.source
        a == params.args
    IN  CASE method = "rename_node" -> rename_node(source, a.name, a.new_name)
          [] method = "patch_node" -> patch_node(source, a.name, a.code)
          [] method = "add_spec_node" ->
                add_spec_node(source, a.node.id, a.node.node_type, a.node.label, a.node.props)
          [] method = "add_link" ->
                add_link(source, a.name, a.edge.source, a.edge.source_port, a.edge.target,
                         a.edge.target_port)
          [] method = "patch_spec_node" ->
                patch_spec_node(source, PatchSpecParams(a.node.id, a.node.node_type,
                                    a.node.label, a.node.props, a.set[1], a.set[2], a.set[3]))
          [] method = "delete_node" -> delete_node(source, a.node.id)

PatcherMethods ==
    {"rename_node", "patch_node", "add_spec_node", "add_link", "patch_spec_node", "delete_node"}

\* handle_request (rpc/server.py 126-243)
handle_request(request) ==
    IF request.t # "dict" THEN Error(JInt("-1"), Message("Invalid request", ""))
    ELSE IF request.id.t \notin {"int", "bool"} \/ request.method.t # "str"
    THEN Error(JInt("-1"), Message("Invalid request fields", ""))
    ELSE LET request_id == request.id
             method == request.method.s
             exc == parse_params(request.params)
         IN  CASE method = "hello" -> Response(request_id, Result("str", "hello from holon-core"), Absent)
               [] method = "ping" -> Response(request_id, Result("str", "pong"), Absent)
               [] method = "shutdown" -> Response(request_id, Result("str", "shutdown"), Absent)
               [] method = "parse_source" ->
                    IF exc # NoExc THEN Error(request_id, format_error(exc))
                    ELSE IF ~request.params.parses
                    THEN Error(request_id, format_error(Exc("ParserSyntaxError", "Syntax Error @ 1:1.")))
                    ELSE Response(request_id,
                                  Result("graph", parse_graph(request.params.source)), Absent)
               [] method \in PatcherMethods ->
                    IF exc # NoExc THEN Error(request_id, format_error(exc))
                    ELSE IF ~request.params.parses
                    THEN Error(request_id, format_error(Exc("ParserSyntaxError", "Syntax Error @ 1:1.")))
                    ELSE LET updated == patcher_call(method, request.params)
                         IN  IF updated.raises # None
                             THEN Error(request_id, format_error(Exc(updated.raises, "")))
                             ELSE Response(request_id, Result("source", updated.code), Absent)
               [] OTHER -> Error(request_id, Message("Unknown method: ", method))

\* the sources of the requests: a plain one, and the text add_spec_node writes
\* for a label outside the Basic Multilingual Plane
PlainSource == SourceOf(PlainImport, <<>>, <<SpecOne>>, PlainWorkflow)
EscapedSource == add_spec_node(PlainSource, "spec:new", "tool.example", Emoji, JNone).code

RequestOf(id, method, params) == Request("dict", id, JStr(method), params)

Requests ==
    {Request("list", JNone, JNone, NoParams),
     Request("dict", JStr("1"), JStr("ping"), NoParams),
     Request("dict", JInt("1"), JInt("5"), NoParams),
     Request("dict", JNone, JStr("shutdown"), NoParams),
     RequestOf(JInt("1"), "hello", NoParams),
     RequestOf(JInt("2"), "ping", NoParams),
     RequestOf(JBool("True"), "ping", NoParams),
     RequestOf(JInt("3"), "shutdown", NoParams),
     RequestOf(JInt("4"), "nope", NoParams),
     RequestOf(JInt("4"), LoneSurrogate, NoParams),
     RequestOf(JInt("5"), "parse_source", Object(PlainSource, NoOperation)),
     RequestOf(JInt("5"), "parse_source", Object(EscapedSource, NoOperation)),
     RequestOf(JInt("5"), "parse_source", NoParams),
     RequestOf(JInt("5"), "parse_source", Params("object", TRUE, FALSE, <<>>, NoOperation)),
     RequestOf(JInt("6"), "rename_node",
               Object(PlainSource, Operation("rename_node", "analyze", "analyze_v2", <<>>,
                                             NoNode, <<>>, NoEdge))),
     RequestOf(JInt("6"), "rename_node", Params("list", FALSE, FALSE, <<>>, NoOperation)),
     RequestOf(JInt("7"), "patch_node",
               Object(PlainSource, Operation("patch_node", "analyze", None, <<Line(Pass)>>,
                                             NoNode, <<>>, NoEdge))),
     RequestOf(JInt("8"), "add_spec_node",
               Object(PlainSource, Operation("add_spec_node", None, None, <<>>,
                                             SpecNode("spec:new", "tool.example", Emoji, JNone),
                                             <<>>, NoEdge))),
     RequestOf(JInt("8"), "add_spec_node", Params("object", FALSE, FALSE, <<>>, NoOperation)),
     RequestOf(JInt("9"), "add_link",
               Object(PlainSource, Operation("add_link", "main", None, <<>>, NoNode, <<>>,
                          Edge("spec:one", "node:analyze", "output", "input", "link")))),
     RequestOf(JInt("10"), "patch_spec_node",
               Object(PlainSource, Operation("patch_spec_node", None, None, <<>>,
                                             SpecNode("spec:absent", None, "Tool", JNone),
                                             <<FALSE, TRUE, FALSE>>, NoEdge))),
     RequestOf(JInt("11"), "delete_node",
               Object(PlainSource, Operation("delete_node", None, None, <<>>,
                                             SpecNode("spec:one", None, None, JNone),
                                             <<>>, NoEdge)))}

Lines ==
    {InputLine("blank", Request("none", JNone, JNone, NoParams)),
     InputLine("not json", Request("none", JNone, JNone, NoParams)),
     InputLine("too deep", Request("none", JNone, JNone, NoParams))}
    \cup {InputLine("json", r) : r \in Requests}

\* whether a value holds a string with a surrogate code point
RECURSIVE JHasSurrogate(_)
JHasSurrogate(v) ==
    \/ v.t = "str" /\ v.s \in Surrogates
    \/ \E j \in 1..Len(v.keys) : v.keys[j] \in Surrogates
    \/ \E j \in 1..Len(v.items) : JHasSurrogate(v.items[j])

\* whether the text json.dumps(response, ensure_ascii=False) holds one
HasSurrogate(response) ==
    CASE response.result.kind = "graph" ->
            \E j \in 1..Len(response.result.value.nodes) :
                LET n == response.result.value.nodes[j]
                IN  \/ {n.id, n.name, n.label, n.node_type} \cap Surrogates # {}
                    \/ JHasSurrogate(n.props)
      [] response.error.kind = "error" -> response.error.value.arg \in Surrogates
      [] OTHER -> FALSE

InitServer ==
    /\ stdin \in SeqsUpTo(Lines, MaxLines)
    /\ stdout = <<>>
    /\ server_pc = "reading"
    /\ requests = <<>>
    /\ crash = None
    /\ RegistryConstructed
    /\ resolve_specs = TRUE
    /\ RunnerConstructed
    /\ graph = Graph(<<>>, <<>>)
    /\ registry = BuiltinRegistry
    /\ EngineConstructed
    /\ BufferNotCreated
    /\ module_text = <<>>
    /\ original = <<>>
    /\ operation = NoOperation
    /\ outcome = None
    /\ patches = 0
    /\ previous = NoExtraction
    /\ latest = NoExtraction

\* main (rpc/server.py 105-123), one action per way through the loop body

\* a blank line, or a line json.loads rejects with JSONDecodeError: continue
skip_line ==
    /\ server_pc = "reading"
    /\ stdin # <<>>
    /\ Head(stdin).kind \in {"blank", "not json"}
    /\ stdin' = Tail(stdin)
    /\ UNCHANGED <<stdout, server_pc, requests, crash>>
    /\ UNCHANGED <<engine_vars, text_vars, runner_vars, registry_vars, buffer_vars>>

\* a line json.loads cannot decode within the recursion limit: RecursionError
\* is no JSONDecodeError and leaves main
decode_line_fails ==
    /\ server_pc = "reading"
    /\ stdin # <<>>
    /\ Head(stdin).kind = "too deep"
    /\ stdin' = Tail(stdin)
    /\ server_pc' = "crashed"
    /\ crash' = "RecursionError"
    /\ UNCHANGED <<stdout, requests>>
    /\ UNCHANGED <<engine_vars, text_vars, runner_vars, registry_vars, buffer_vars>>

\* a request: handled, then written; stdout cannot encode a surrogate
serve_request ==
    /\ server_pc = "reading"
    /\ stdin # <<>>
    /\ Head(stdin).kind = "json"
    /\ \E request \in {Head(stdin).request} :
       \E response \in {handle_request(request)} :
           /\ stdin' = Tail(stdin)
           /\ requests' = Append(requests, [request |-> request, response |-> response])
           /\ IF HasSurrogate(response)
              THEN /\ server_pc' = "crashed"
                   /\ crash' = "UnicodeEncodeError"
                   /\ UNCHANGED stdout
              ELSE /\ stdout' = Append(stdout, response)
                   /\ server_pc' = IF response.result.kind = "str"
                                      /\ response.result.value = "shutdown"
                                   THEN "returned" ELSE "reading"
                   /\ UNCHANGED crash
    /\ UNCHANGED <<engine_vars, text_vars, runner_vars, registry_vars, buffer_vars>>

\* stdin is exhausted: main returns
end_of_input ==
    /\ server_pc = "reading"
    /\ stdin = <<>>
    /\ server_pc' = "returned"
    /\ UNCHANGED <<stdin, stdout, requests, crash>>
    /\ UNCHANGED <<engine_vars, text_vars, runner_vars, registry_vars, buffer_vars>>

NextServer ==
    \/ skip_line
    \/ decode_line_fails
    \/ serve_request
    \/ end_of_input

SpecServer == InitServer /\ [][NextServer]_vars

\* a request with an integer id and a string method
WellFormedRequest(request) ==
    request.t = "dict" /\ request.id.t \in {"int", "bool"} /\ request.method.t = "str"

\* a response with the id of its request, or -1 for a malformed one, and exactly
\* one of result and error, the error with a message that is not empty
WellFormedResponse(request, response) ==
    /\ response.id = IF WellFormedRequest(request) THEN request.id ELSE JInt("-1")
    /\ (response.result.kind = "absent") # (response.error.kind = "absent")
    /\ response.error.kind = "error" =>
            response.error.value.text \o response.error.value.arg \notin {"", " "}

Shutdown(request) == WellFormedRequest(request) /\ request.method.s = "shutdown"

(***************************************************************************)
(* C20 (as stated): the RPC transport never crashes.  handle_request       *)
(* returns a response with the id of the request (-1 when it is            *)
(* malformed) and exactly one of result and error, a failure being an      *)
(* error with a non-empty message; the loop writes one response line per   *)
(* parsed request line, in order, and main returns after answering         *)
(* shutdown, reading no further line.                                      *)
(***************************************************************************)
C20_TransportNeverCrashes ==
    /\ crash = None
    /\ \A j \in 1..Len(requests) : WellFormedResponse(requests[j].request, requests[j].response)
    /\ stdout = [j \in 1..Len(requests) |-> requests[j].response]
    /\ \A j \in 1..Len(requests) :
            Shutdown(requests[j].request) => (j = Len(requests) /\ server_pc = "returned")

\* the ids of the nodes that are executable by their kind: the callable steps
\* and the langchain.agent declarations
ExecutableByKind(g) ==
    {g.nodes[i].id : i \in {j \in 1..Len(g.nodes) : g.nodes[j].kind = "node" \/ is_agent(g.nodes[j])}}

OrderBuilt == phase \in {"Running", "Completed"}

(***************************************************************************)
(* C21 (as stated): for every graph, cyclic links and self-loops included, *)
(* _build_execution_order ends without failing and returns a list holding  *)
(* the id of every callable-step node and every langchain.agent spec node, *)
(* and of no other node, exactly once.                                     *)
(***************************************************************************)
C21_OrderListsExecutablesOnce ==
    /\ (phase = "ConnectionsRegistered" /\ resolve_pos > Len(graph.nodes)) =>
            build_execution_order_results(graph, connections) # {}
    /\ OrderBuilt =>
            /\ \A i, j \in 1..Len(execution_order) :
                    execution_order[i] = execution_order[j] => i = j
            /\ Range(execution_order) = ExecutableByKind(graph)

(***************************************************************************)
(* C22 (as stated): within one execute_graph run every port-value key is   *)
(* written at most once, for every kind of node, langchain.agent nodes     *)
(* included: a key that holds a value keeps that value for the rest of the *)
(* run, so a dependent reads either no value or the single value written.  *)
(***************************************************************************)
C22_PortValueWrittenOnce ==
    [][runs' = runs =>
        \A key \in DOMAIN values : key \in DOMAIN values' /\ values'[key] = values[key]]_vars


(***************************************************************************)
(* C23  Resolution cache.  A resolution of a declarative node that returns *)
(* leaves every entry the cache already held as it was (the resolver of a  *)
(* cached id is not invoked again and the same ResolvedNode is returned),  *)
(* publishes the cached runtime object on the node's output port, and the  *)
(* entry cached under the node's id carries the node_type and the props of *)
(* the declaration being resolved.                                         *)
(***************************************************************************)
Resolving == phase = "ConnectionsRegistered" /\ resolve_pos <= Len(graph.nodes)

C23_ResolutionCache ==
    [][(Resolving /\ resolve_pos' # resolve_pos) =>
          LET node == graph.nodes[resolve_pos]
          IN  /\ \A id \in DOMAIN cache : id \in DOMAIN cache' /\ cache'[id] = cache[id]
              /\ get_cached(cache', node.id).node_id = node.id
              /\ values'[<<node.id, "output">>] = get_cached(cache', node.id).runtime_object
              /\ get_cached(cache', node.id).node_type = node.node_type
              /\ get_cached(cache', node.id).props = props_or_empty(node.props)]_vars


(***************************************************************************)
(* C24 (as stated): run-scoped state does not outlive its run.  Each       *)
(* execute_graph call on an ExecutionContext starts with no port value, no *)
(* port connection, no node output and no trace entry; once the edges are  *)
(* registered the connection list holds one entry per explicit-link edge.  *)
(***************************************************************************)
RunStarts == phase = "Idle"

C24_RunStateIsRunScoped ==
    /\ RunStarts =>
           /\ values = <<>>
           /\ connections = <<>>
           /\ node_outputs = <<>>
           /\ execution_trace = <<>>
    /\ ~RunStarts => connections = link_connections(graph.edges, 1)


(***************************************************************************)
(* Vocabulary of C25: the @workflow declarations of a text, and the names  *)
(* a body calls directly, outside every declaration nested in it.          *)
(***************************************************************************)
RECURSIVE WorkflowDeclarations(_, _)
WorkflowDeclarations(body, i) ==
    IF i > Len(body) THEN {}
    ELSE (IF body[i].k = "FunctionDef" /\ extract_holon_kind(body[i]) = "workflow"
          THEN {body[i]} ELSE {})
         \cup WorkflowDeclarations(body[i].body, 1)
         \cup WorkflowDeclarations(body, i + 1)

DirectCallees(calls) ==
    {CallFunc(calls[j]).s : j \in {j \in 1..Len(calls) : CallFunc(calls[j]).e = "Name"}}

RECURSIVE CalledOutsideNested(_, _)
CalledOutsideNested(body, i) ==
    IF i > Len(body) THEN {}
    ELSE (CASE body[i].k = "SimpleStatementLine" ->
                    DirectCallees(calls_in_small(body[i].small, 1))
            [] body[i].k \in {"FunctionDef", "ClassDef"} -> {}
            [] OTHER -> CalledOutsideNested(body[i].body, 1))
         \cup CalledOutsideNested(body, i + 1)

CalledByWorkflow(w) ==
    IF w.indented THEN CalledOutsideNested(w.body, 1)
    ELSE DirectCallees(calls_in_small(w.small, 1))

NodeNames(g) == {g.nodes[j].name : j \in {j \in 1..Len(g.nodes) : g.nodes[j].kind = "node"}}

CallEdgesAt(g) == {j \in 1..Len(g.edges) : g.edges[j].kind = "code"}

(***************************************************************************)
(* C25 (as stated): parse_graph emits the implicit call edge               *)
(* workflow:W -> node:N exactly when the body of the workflow W holds,     *)
(* outside any nested declaration, a direct unqualified call N(...) of an  *)
(* @node name N, awaited or not; a nested declaration hides no call that   *)
(* follows it, and any number of calls of one (W, N) yields one edge.      *)
(***************************************************************************)
C25_CallEdgesExactlyDirectCalls ==
    latest.made =>
        LET g == latest.graph
        IN  /\ {<<g.edges[j].source, g.edges[j].target>> : j \in CallEdgesAt(g)}
                 = UNION {{<<"workflow:" \o w.name, "node:" \o n>> :
                                n \in CalledByWorkflow(w) \cap NodeNames(g)} :
                          w \in WorkflowDeclarations(latest.text, 1)}
            /\ \A j, k \in CallEdgesAt(g) :
                  (g.edges[j].source = g.edges[k].source
                   /\ g.edges[j].target = g.edges[k].target) => j = k


(***************************************************************************)
(* Vocabulary of C26: literal values, and the top-level spec(...)          *)
(* declarations whose props mapping holds a value that is not one.         *)
(***************************************************************************)
RECURSIVE IsLiteralValue(_)
IsLiteralValue(expr) ==
    \/ expr.e \in {"SimpleString", "Integer", "Float"}
    \/ expr.e = "Name" /\ expr.s \in {"True", "False", "None"}
    \/ expr.e = "UnaryOperation" /\ expr.s = "-" /\ expr.sub[1].e \in {"Integer", "Float"}
    \/ expr.e \in {"List", "Dict"} /\ \A j \in 1..Len(expr.sub) : IsLiteralValue(expr.sub[j])

IsSpecStatement(stmt) ==
    /\ extract_call_from_simple_stmt(stmt) # NoExpr
    /\ call_matches(CallFunc(extract_call_from_simple_stmt(stmt)), "spec")

PropsOf(stmt) == keyword_value(CallArgs(extract_call_from_simple_stmt(stmt)), "props")

HasNonLiteralProps(stmt) ==
    IsSpecStatement(stmt) /\ PropsOf(stmt).e = "Dict" /\ ~IsLiteralValue(PropsOf(stmt))

Without(seq, i) == SubSeq(seq, 1, i - 1) \o SubSeq(seq, i + 1, Len(seq))

IsSpecNode(n) == n.kind = "spec"

(***************************************************************************)
(* C26 (as stated): a top-level spec(...) declaration whose props mapping  *)
(* holds a non-literal value at any depth contributes no node to the Graph *)
(* parse_graph returns: the declarative nodes of the Graph are those of    *)
(* the text without that declaration.                                      *)
(***************************************************************************)
C26_NonLiteralPropsSkipped ==
    latest.made =>
        \A i \in 1..Len(latest.text) :
            HasNonLiteralProps(latest.text[i]) =>
                SelectSeq(latest.graph.nodes, IsSpecNode)
                    = SpecNodeCollector(Without(latest.text, i), 1)


\* the top-level statements of a text that declare the spec node of the given id
TopLevelSpecsAt(source_code, node_id) ==
    {i \in 1..Len(source_code) : IsSpecDeclaration(source_code[i], node_id)}

(***************************************************************************)
(* C27 (as stated): a patch_spec_node call that returns rewrites exactly   *)
(* one statement, the first top-level spec(...) declaration whose literal  *)
(* first argument is node_id.  Every other top-level statement, with the   *)
(* spec(...) calls nested in function and class bodies, later declarations *)
(* of the same id and declarations of other ids, is left as it was.        *)
(***************************************************************************)
C27_PatchesFirstTopLevelSpec ==
    (operation.op = "patch_spec_node" /\ outcome = None) =>
        LET at == TopLevelSpecsAt(original, operation.node.id)
        IN  /\ at # {}
            /\ Len(module_text) = Len(original)
            /\ \A j \in 1..Len(original) :
                  (\E i \in at : i < j) \/ j \notin at => module_text[j] = original[j]


(***************************************************************************)
(* Vocabulary of C28: the top-level @workflow declarations of a name, the  *)
(* statements of a body, and a body that ends with a return.               *)
(***************************************************************************)
TopLevelWorkflowsAt(source_code, workflow_name) ==
    {i \in 1..Len(source_code) :
        /\ source_code[i].k = "FunctionDef"
        /\ is_decorated_as(source_code[i], "workflow")
        /\ source_code[i].name = workflow_name}

BodyStatements(func) ==
    IF func.indented THEN func.body ELSE <<SimpleStatementLine(func.small)>>

EndsWithReturn(stmts) ==
    /\ stmts # <<>>
    /\ stmts[Len(stmts)].k = "SimpleStatementLine"
    /\ stmts[Len(stmts)].small # <<>>
    /\ stmts[Len(stmts)].small[1].k = "Return"

IsLinkOf(stmt, e) ==
    /\ extract_call_from_simple_stmt(stmt) # NoExpr
    /\ call_matches(CallFunc(extract_call_from_simple_stmt(stmt)), "link")
    /\ parse_link_call(extract_call_from_simple_stmt(stmt)) = e

\* statements added at the top of the text by the latest call
AddedAtTop == Len(module_text) - Len(original)

(***************************************************************************)
(* C28 (as stated): add_link inserts exactly one link(...) statement into  *)
(* the body of the @workflow declaration named workflow_name, immediately  *)
(* before the body's last statement when that is a return and as the new   *)
(* last statement otherwise; the statements the body had keep their order, *)
(* and the body of no other declaration changes.                           *)
(***************************************************************************)
C28_LinkInsertedInWorkflowBody ==
    (operation.op = "add_link" /\ outcome = None) =>
        /\ AddedAtTop \in {0, 1}
        /\ \A i \in 1..Len(original) :
              LET old == original[i]
                  new == module_text[i + AddedAtTop]
                  at == IF EndsWithReturn(BodyStatements(old))
                        THEN Len(BodyStatements(old)) ELSE Len(BodyStatements(old)) + 1
              IN  IF i \in TopLevelWorkflowsAt(original, operation.name)
                  THEN /\ Len(BodyStatements(new)) = Len(BodyStatements(old)) + 1
                       /\ IsLinkOf(BodyStatements(new)[at], operation.edge)
                       /\ Without(BodyStatements(new), at) = BodyStatements(old)
                  ELSE old.k \in {"FunctionDef", "ClassDef"} =>
                          BodyStatements(new) = BodyStatements(ImportEdit(<<old>>, RequiredNames)[1])


(***************************************************************************)
(* Vocabulary of C29: import lines, the names they bind, and a text with   *)
(* the names of its holon imports left out (the Patcher may add names to   *)
(* an import it finds).                                                    *)
(***************************************************************************)
IsImportLine(stmt) ==
    /\ stmt.k = "SimpleStatementLine"
    /\ stmt.small # <<>>
    /\ stmt.small[1].k \in {"Import", "ImportFrom"}

BindsSpec(stmt) ==
    /\ stmt.k = "SimpleStatementLine"
    /\ \E j \in 1..Len(stmt.small) :
          /\ stmt.small[j].k = "ImportFrom"
          /\ stmt.small[j].value = Name("holon")
          /\ (stmt.small[j].names = ImportStar \/ "spec" \in Range(stmt.small[j].names))

RECURSIVE ImportNamesApart(_)
ImportNamesApart(stmts) ==
    [i \in 1..Len(stmts) |->
        [stmts[i] EXCEPT
            !.small = [j \in 1..Len(@) |->
                          IF @[j].k = "ImportFrom" THEN [@[j] EXCEPT !.names = <<>>] ELSE @[j]],
            !.body = ImportNamesApart(@)]]

(***************************************************************************)
(* C29 (as stated): add_spec_node never removes or reorders statements.    *)
(* The top-level statements of its output are those of its input, in the   *)
(* same order, with exactly one spec(...) statement inserted immediately   *)
(* after the import statements (at the start of a file that has none) and  *)
(* at most one import statement added before it; the inserted declaration  *)
(* follows an import that binds the name spec.                             *)
(***************************************************************************)
C29_SpecInsertedAfterImports ==
    (operation.op = "add_spec_node" /\ outcome = None) =>
        \E at \in 1..Len(module_text) :
            /\ IsSpecDeclaration(module_text[at], operation.node.id)
            /\ at = 1 \/ IsImportLine(module_text[at - 1])
            /\ \A j \in (at + 1)..Len(module_text) : ~IsImportLine(module_text[j])
            /\ \E j \in 1..(at - 1) : BindsSpec(module_text[j])
            /\ \/ ImportNamesApart(Without(module_text, at)) = ImportNamesApart(original)
               \/ \E j \in 1..(at - 1) :
                     /\ IsImportLine(module_text[j])
                     /\ ImportNamesApart(Without(Without(module_text, at), j))
                            = ImportNamesApart(original)


(***************************************************************************)
(* registry.py: the MemoryBuffer that _resolve_memory_buffer returns.      *)
(* Lists are objects: a call that returns a list returns its index in      *)
(* heap, so that a caller changing the list it holds changes that object   *)
(* and every holder of it.                                                 *)
(***************************************************************************)
MaxBufferCalls == 4

\* the values of props["max_messages"] the buffer is built with
MaxMessagesChoices == {-1, 0, 1, 2}
Messages == {"msg0", "msg1"}

\* MemoryBuffer.add that appends and never drops a message
add_without_pop(stored, limit, message) == Append(stored, message)

\* MemoryBuffer.add: the list self.messages after the call
add(stored, limit, message) ==
    IF Len(Append(stored, message)) > limit
    THEN Tail(Append(stored, message))
    ELSE Append(stored, message)

\* MemoryBuffer.get_messages: the heap after the call; the list returned is the last
get_messages(lists) == Append(lists, Head(lists))

\* MemoryBuffer.clear: the list self.messages after the call
clear(stored) == <<>>

\* MemoryBuffer(**props) with props = {"max_messages": n}
InitBuffer ==
    /\ max_messages \in MaxMessagesChoices
    /\ heap = <<<<>>>>
    /\ got = 0
    /\ added = <<>>
    /\ buffer_call = None
    /\ buffer_calls = 0
    /\ resolve_specs = TRUE
    /\ RunnerConstructed
    /\ RegistryConstructed
    /\ ServerNotStarted
    /\ graph = Graph(<<>>, <<>>)
    /\ registry = BuiltinRegistry
    /\ EngineConstructed
    /\ module_text = <<>>
    /\ original = <<>>
    /\ operation = NoOperation
    /\ outcome = None
    /\ patches = 0
    /\ previous = NoExtraction
    /\ latest = NoExtraction

call_add ==
    /\ buffer_calls < MaxBufferCalls
    /\ \E message \in Messages :
          /\ heap' = [heap EXCEPT ![1] = add(@, max_messages, message)]
          /\ added' = Append(added, message)
    /\ buffer_call' = "add"
    /\ buffer_calls' = buffer_calls + 1
    /\ UNCHANGED <<max_messages, got>>
    /\ UNCHANGED <<engine_vars, text_vars, runner_vars, registry_vars, rpc_vars>>

call_get_messages ==
    /\ buffer_calls < MaxBufferCalls
    /\ heap' = get_messages(heap)
    /\ got' = Len(heap')
    /\ buffer_call' = "get_messages"
    /\ buffer_calls' = buffer_calls + 1
    /\ UNCHANGED <<max_messages, added>>
    /\ UNCHANGED <<engine_vars, text_vars, runner_vars, registry_vars, rpc_vars>>

call_clear ==
    /\ buffer_calls < MaxBufferCalls
    /\ heap' = [heap EXCEPT ![1] = clear(@)]
    /\ added' = <<>>
    /\ buffer_call' = "clear"
    /\ buffer_calls' = buffer_calls + 1
    /\ UNCHANGED <<max_messages, got>>
    /\ UNCHANGED <<engine_vars, text_vars, runner_vars, registry_vars, rpc_vars>>

\* the caller appends to the list that get_messages returned
caller_appends ==
    /\ buffer_calls < MaxBufferCalls
    /\ got # 0
    /\ \E message \in Messages : heap' = [heap EXCEPT ![got] = Append(@, message)]
    /\ buffer_call' = "append"
    /\ buffer_calls' = buffer_calls + 1
    /\ UNCHANGED <<max_messages, got, added>>
    /\ UNCHANGED <<engine_vars, text_vars, runner_vars, registry_vars, rpc_vars>>

NextBuffer ==
    \/ call_add
    \/ call_get_messages
    \/ call_clear
    \/ caller_appends

SpecBuffer == InitBuffer /\ [][NextBuffer]_vars

\* the list MemoryBuffer.messages, and the last n elements of a sequence
stored_messages == Head(heap)
MostRecent(seq, n) == SubSeq(seq, Len(seq) - n + 1, Len(seq))
Least(a, b) == IF a <= b THEN a ELSE b

\* the number of messages a buffer of the given max_messages keeps
Capacity == IF max_messages < 0 THEN 0 ELSE max_messages

(***************************************************************************)
(* C30 (as stated): after any sequence of add and clear the number of      *)
(* stored messages never exceeds max_messages, and the buffer holds, in    *)
(* insertion order, exactly the most recent min(n, max_messages) of the n  *)
(* messages added since the last clear; get_messages returns them in a     *)
(* list of its own.                                                        *)
(***************************************************************************)
C30_BoundedFifo ==
    /\ Len(stored_messages) <= max_messages
    /\ stored_messages = MostRecent(added, Least(Len(added), max_messages))
    /\ buffer_call = "get_messages" => heap[got] = stored_messages

(***************************************************************************)
(* C30 (amended): the bound is max_messages when that is not negative, and *)
(* a buffer built with a negative max_messages stays empty.  The buffer    *)
(* holds, in insertion order, exactly the most recent                      *)
(* min(n, max(max_messages, 0)) of the n messages added since the last     *)
(* clear, whatever the caller does to the lists get_messages returned, and *)
(* get_messages returns these messages.                                    *)
(***************************************************************************)
C30_BoundedFifoFromZero ==
    /\ Len(stored_messages) <= Capacity
    /\ stored_messages = MostRecent(added, Least(Len(added), Capacity))
    /\ buffer_call = "get_messages" => heap[got] = stored_messages

\* a full buffer dropped its oldest message, and the caller changed the list it got
C30_Witness ==
    /\ max_messages >= 1
    /\ Len(added) > max_messages
    /\ buffer_call = "append"

====
